---------------------------- MODULE Spec2Model ----------------------------
(***************************************************************************)
(* A model of homebridge-moonside: the cloud client MoonsideApiClient      *)
(* (src/src/moonsideApi.ts: token lifecycle and the realtime stream        *)
(* subscription) and the colour-command debounce of MoonsideLampAccessory  *)
(* (platformAccessory.ts, held in src/README.md).                          *)
(*                                                                         *)
(* JavaScript runs one task at a time: every action below is the code      *)
(* that runs between two suspension points (an await, a timer, an I/O      *)
(* completion).                                                            *)
(***************************************************************************)
EXTENDS Integers, Sequences, FiniteSets, TLC

(***************************************************************************)
(* Bounds of the model.                                                    *)
(***************************************************************************)
MaxCallers == 2
MaxSubs == 2
MaxSeconds == 1
MaxSubmits == 3
MaxColorTicks == 6
MaxDevices == 2
MaxPending == 2
MaxEntries == 2

(***************************************************************************)
(* Program constants.                                                      *)
(***************************************************************************)
TOKEN_MARGIN_S == 120
MS_PER_S == 1000
RECONNECT_DELAY_MS == 5000
COLOR_DEBOUNCE_MS == 150

\* An optional string field (a token, an id) is the number of the process whose
\* request the backend answered with it, or Undefined.
Undefined == 0

\* A JavaScript number: an integer or NaN.
Num(v) == [nan |-> FALSE, v |-> v]
NaN == [nan |-> TRUE, v |-> 0]

\* The text of expiresIn is given as its decimal digits; a missing field and the
\* empty string both parse to NaN and are both NoText.
NoText == <<>>

\* Direct callers of ensureAuthenticated (getDeviceState, patchDevice,
\* fetchDevices, fetchThemeLibrary) and the connect closures of the
\* subscriptions, which call it too.
Callers == 1..MaxCallers
Subs == {100 + i : i \in 1..MaxSubs}
Procs == Callers \cup Subs

VARIABLES
  now,                     \* Date.now(), in ms
  idToken, refreshToken, localId, tokenExpiry,
  apc,                     \* where each process is inside ensureAuthenticated
  nLogin, nRefresh,        \* requests issued by the current ensureAuthenticated call
  authErr,                 \* which request's error the call was rejected with
  refreshFailed,           \* the refresh of the current call has failed
  obtainedAt, obtainedLifetime, \* when the stored session was obtained, and its lifetime
  phase,                   \* where each subscription's connect closure is
  ctrlAborted,             \* signal.aborted of the controller each subscription created
  streamAbortController,   \* the client's controller: 0 or the subscription that made it
  eventSourceRestartTimer, \* the client's timer handle: 0 or the subscription that armed it
  restartTimer,            \* the delay of each subscription's armed timer, 0 when none is
  cancelled,               \* the cancel function of the subscription has been called
  cancelTurn,              \* flips at every call of a cancel function
  lastEnd,                 \* how the connect() of the subscription ended, until the next starts
  errorReported,           \* whether that end invoked onError
  skipRefresh,             \* the flag of the platform's onBeforeConnect closure
  reconnecting,            \* whether the reconnect timer made the last call of connect()
  targetHue, targetSaturation,
  colorUpdatePromise,      \* 0, or the submit call that created the pending promise
  colorUpdateTimeout,      \* 0, or the handle of a debounce timer: the submit call that armed it
  colorTimers,             \* the debounce timers that are armed, by the same names
  destroyed,               \* whether destroy() has been called
  atDestroy,               \* the numbers of submits and of commands when it was
  settledBy,               \* the command whose end settled the promise of each call (-1: destroy)
  accessories,             \* MoonsideCloudPlatform.accessories: the uuids registered
  accessoriesByDeviceId,   \* the device ids that have a lamp handler (a device mirror)
  themeAccessories,        \* device id -> the themes of its theme switch handler
  themeSwitchNames,        \* the configured theme names, trimmed and non-empty
  themeDefinitionsCache,   \* [set, defs]: the resolved themes, once resolved
  library,                 \* the catalog entries of the last fetchThemeLibrary
  warned,                  \* the configured names the last resolution warned about
  refresh,                 \* discoverDevices / refreshDevicesFromCloud: where it stands
  draining,                \* whether the suspended callbacks have begun to resume
  micro,                   \* the update callbacks suspended at their first await
  deleted,                 \* the devices whose last stream event was a deletion
  themeOp,                 \* the last call of registerOrUpdateThemeAccessory
  streamPath,              \* the path of the last put or patch event of the stream
  streamData,              \* its data
  streamEntries,           \* Object.entries(data), when its data is an object at the root
  updates,                 \* the calls of onUpdate made for it
  parseFailed,             \* whether its handling ended in the catch of processSseEvent
  lampHandler,             \* whether device "A" has a lamp handler
  cachedState,             \* the cached state of that handler
  pendingOn,               \* "none", or the value of a handleSetOn awaiting sendControl
  frameType,               \* the event type of the last framed event of a stream
  frameData,               \* its data payload: "empty", "malformed" or a "document"
  frameOutcome,            \* what processSseEvent did with it
  frameMalformed,          \* a put or patch event was dropped for its malformed JSON
  reqOp,                   \* the direct request of the caller: which method
  reqPc,                   \* where it stands
  reqFetches,              \* the calls of fetch it has made
  reqResponse,             \* the answer to its fetch, <<status, body>>
  reqError,                \* what the Error it threw carries
  streamResponse,          \* the answer to the last fetch of consumeEventStream
  outletOn,                \* the On characteristic of each outlet of a theme group
  outletSince,             \* when it was last set to true
  outletFlips,             \* the values HomeKit has set, <<theme, value>>
  themeCommands,           \* the commands handleThemeSet handed to sendControl
  themeInflight,           \* those whose sendControl has not ended
  resetTimers,             \* the armed reset timers, <<theme, due instant>>
  streamUnsubscribe,       \* whether startRealtimeStream has subscribed to the stream
  discoverLog,             \* "none", or the "error" discoverDevices has logged
  catalogLog,              \* "none", or how the last fetchThemeLibrary ended: "loaded" or "error"
  received,                \* the bytes the reads of one response body have delivered
  decoderLead,             \* the lead byte textDecoder holds back, or 0
  buffer,                  \* the buffer of consumeEventStream
  rawEvents,               \* the rawEvent of each call of processSseEvent, in order
  readDone,                \* reader.read() has answered done
  carried,                 \* an event was framed from text of more than one read
  lastSync,                \* "none", or whether the last syncDeviceSnapshot that returned
                           \* "removed" a device that had a handler or "kept" them all
  submits,                 \* the calls of scheduleColorUpdate so far
  settled,                 \* how the promise created by each call was settled
  commands,                \* the colour commands handed to sendControl so far
  inflight                 \* those whose sendControl has not ended

authVars == <<idToken, refreshToken, localId, tokenExpiry, apc, nLogin, nRefresh,
              authErr, refreshFailed, obtainedAt, obtainedLifetime>>
streamVars == <<phase, ctrlAborted, streamAbortController, eventSourceRestartTimer,
                restartTimer, cancelled, cancelTurn, lastEnd, errorReported,
                skipRefresh, reconnecting>>
colorVars == <<targetHue, targetSaturation, colorUpdatePromise, colorUpdateTimeout,
               submits, settled, commands, inflight, colorTimers, destroyed, atDestroy,
               settledBy>>
platformVars == <<accessories, accessoriesByDeviceId, themeAccessories, themeSwitchNames,
                  themeDefinitionsCache, library, warned, refresh, draining, micro, deleted,
                  themeOp, lastSync>>
decoderVars == <<streamPath, streamData, streamEntries, updates, parseFailed, lampHandler, cachedState,
                 pendingOn>>
frameVars == <<frameType, frameData, frameOutcome, frameMalformed>>
requestVars == <<reqOp, reqPc, reqFetches, reqResponse, reqError, streamResponse>>
outletVars == <<outletOn, outletSince, outletFlips, themeCommands, themeInflight, resetTimers>>
discoverVars == <<streamUnsubscribe, discoverLog, catalogLog>>
readVars == <<received, decoderLead, buffer, rawEvents, readDone, carried>>
otherVars == <<outletVars, discoverVars, readVars>>
wireVars == <<frameVars, requestVars, otherVars>>
mirrorVars == <<platformVars, decoderVars, wireVars>>
vars == <<now, authVars, streamVars, colorVars, mirrorVars>>

---------------------------------------------------------------------------
(***************************************************************************)
(* Token lifecycle.                                                        *)
(***************************************************************************)

\* !value for the optional string fields of the client.
Falsy(v) == v = Undefined

\* a >= b of JavaScript numbers: false when either is NaN.
Ge(a, b) == ~a.nan /\ ~b.nan /\ a.v >= b.v

RECURSIVE DigitsValue(_)
DigitsValue(s) ==
  IF s = <<>> THEN 0 ELSE 10 * DigitsValue(SubSeq(s, 1, Len(s) - 1)) + s[Len(s)]

\* parseInt(text, 10) of a decimal string; NaN for a missing field or an empty
\* string.
ParseInt(s) == IF s = NoText THEN NaN ELSE Num(DigitsValue(s))

\* Date.now() + (parseInt(expiresIn, 10) - 120) * 1000
TokenExpiryNoMargin(t, expiresIn) ==
  IF ParseInt(expiresIn).nan THEN NaN ELSE Num(t + ParseInt(expiresIn).v * MS_PER_S)

TokenExpiryOf(t, expiresIn) ==
  IF ParseInt(expiresIn).nan THEN NaN
  ELSE Num(t + (ParseInt(expiresIn).v - TOKEN_MARGIN_S) * MS_PER_S)

\* The lifetimes the backend reports, as the digits of expiresIn.
Lifetimes == {<<1, 1, 9>>, <<1, 2, 0>>, <<1, 2, 1>>}
LongLifetime == <<3, 6, 0, 0>>

Shapes == {"full", "noToken", "noRefreshToken", "noLocalId", "noExpiresIn"}

\* The body of an HTTP-ok answer to the request of process p.
Payload(p, shape, life) ==
  [idToken |-> IF shape = "noToken" THEN Undefined ELSE p,
   refreshToken |-> IF shape = "noRefreshToken" THEN Undefined ELSE p,
   localId |-> IF shape = "noLocalId" THEN Undefined ELSE p,
   expiresIn |-> IF shape = "noExpiresIn" THEN NoText ELSE life]

Failures == {[kind |-> "network"], [kind |-> "http"]}

AuthResponses(p) ==
  Failures \cup
  {[kind |-> "ok", payload |-> Payload(p, "full", l)] : l \in Lifetimes} \cup
  {[kind |-> "ok", payload |-> Payload(p, sh, LongLifetime)] : sh \in Shapes}

\* The answers to the logins of the connect closures: the stream does not depend
\* on which login a token came from, and they all carry the same one.
StreamAuthResponses ==
  Failures \cup {[kind |-> "ok", payload |-> Payload(1, "full", LongLifetime)]}

NeedsAuth == Falsy(idToken) \/ Ge(Num(now), tokenExpiry)

\* login(), to its await of fetch: the request is issued.
LoginStart(p) ==
  /\ apc' = [apc EXCEPT ![p] = "login"]
  /\ nLogin' = [nLogin EXCEPT ![p] = @ + 1]

\* refresh(), to its await of fetch.
RefreshStart(p) ==
  IF Falsy(refreshToken)
  THEN LoginStart(p) /\ UNCHANGED nRefresh
  ELSE /\ apc' = [apc EXCEPT ![p] = "refresh"]
       /\ nRefresh' = [nRefresh EXCEPT ![p] = @ + 1]
       /\ UNCHANGED nLogin

\* ensureAuthenticated(), to its first await. A process that enters has its
\* counters at zero (AuthReturn, ConnectStart).
EnsureAuthenticated(p) ==
  /\ UNCHANGED <<idToken, refreshToken, localId, tokenExpiry, obtainedAt, obtainedLifetime,
                 authErr, refreshFailed>>
  /\ IF ~NeedsAuth
     THEN /\ apc' = [apc EXCEPT ![p] = "resolved"]
          /\ UNCHANGED <<nLogin, nRefresh>>
     ELSE IF Falsy(refreshToken)
     THEN LoginStart(p) /\ UNCHANGED nRefresh
     ELSE RefreshStart(p)

\* Assignments that keep the refresh token of the session before.
StoreSessionKeepRefresh(payload) ==
  /\ idToken' = payload.idToken
  /\ refreshToken' = IF Falsy(refreshToken) THEN payload.refreshToken ELSE refreshToken
  /\ localId' = payload.localId
  /\ tokenExpiry' = TokenExpiryOf(now, payload.expiresIn)
  /\ obtainedAt' = now
  /\ obtainedLifetime' = ParseInt(payload.expiresIn)

\* The four assignments that end login() and refresh().
StoreSession(payload) ==
  /\ idToken' = payload.idToken
  /\ refreshToken' = payload.refreshToken
  /\ localId' = payload.localId
  /\ tokenExpiry' = TokenExpiryOf(now, payload.expiresIn)
  /\ obtainedAt' = now
  /\ obtainedLifetime' = ParseInt(payload.expiresIn)

\* A failure that drops the stored tokens.
DropSession ==
  /\ idToken' = Undefined /\ refreshToken' = Undefined
  /\ UNCHANGED <<localId, tokenExpiry, obtainedAt, obtainedLifetime>>

KeepSession ==
  UNCHANGED <<idToken, refreshToken, localId, tokenExpiry, obtainedAt, obtainedLifetime>>

\* login() from the answer of its fetch on.
LoginDone(p, r) ==
  IF r.kind = "ok"
  THEN /\ StoreSession(r.payload)
       /\ apc' = [apc EXCEPT ![p] = "resolved"]
       /\ UNCHANGED <<nLogin, nRefresh, authErr, refreshFailed>>
  ELSE /\ KeepSession
       /\ apc' = [apc EXCEPT ![p] = "rejected"]
       /\ authErr' = [authErr EXCEPT ![p] = "login"]
       /\ UNCHANGED <<nLogin, nRefresh, refreshFailed>>

\* A refresh error that ensureAuthenticated lets through.
RefreshFailedPropagates(p) ==
  /\ KeepSession
  /\ apc' = [apc EXCEPT ![p] = "rejected"]
  /\ authErr' = [authErr EXCEPT ![p] = "refresh"]
  /\ refreshFailed' = [refreshFailed EXCEPT ![p] = TRUE]
  /\ UNCHANGED <<nLogin, nRefresh>>

\* The catch of ensureAuthenticated: warn, then login().
RefreshFailed(p) ==
  /\ KeepSession
  /\ refreshFailed' = [refreshFailed EXCEPT ![p] = TRUE]
  /\ LoginStart(p)
  /\ UNCHANGED <<nRefresh, authErr>>

\* refresh() from the answer of its fetch on.
RefreshDone(p, r) ==
  IF r.kind = "ok"
  THEN /\ StoreSession(r.payload)
       /\ apc' = [apc EXCEPT ![p] = "resolved"]
       /\ UNCHANGED <<nLogin, nRefresh, authErr, refreshFailed>>
  ELSE RefreshFailed(p)

\* The await of ensureAuthenticated has ended: the bookkeeping of the call is
\* dropped.
ResetCall(p) ==
  /\ apc' = [apc EXCEPT ![p] = "idle"]
  /\ nLogin' = [nLogin EXCEPT ![p] = 0]
  /\ nRefresh' = [nRefresh EXCEPT ![p] = 0]
  /\ authErr' = [authErr EXCEPT ![p] = "none"]
  /\ refreshFailed' = [refreshFailed EXCEPT ![p] = FALSE]

\* A direct caller enters ensureAuthenticated.
CallEnsureAuthenticated(p) ==
  /\ apc[p] = "idle"
  /\ EnsureAuthenticated(p)
  /\ UNCHANGED <<now, streamVars, colorVars, mirrorVars>>

LoginResponse(p, r) ==
  /\ apc[p] = "login"
  /\ LoginDone(p, r)
  /\ UNCHANGED <<now, streamVars, colorVars, mirrorVars>>

RefreshResponse(p, r) ==
  /\ apc[p] = "refresh"
  /\ RefreshDone(p, r)
  /\ UNCHANGED <<now, streamVars, colorVars, mirrorVars>>

\* The caller's await of ensureAuthenticated ends; the caller goes on.
AuthReturn(p) ==
  /\ apc[p] \in {"resolved", "rejected"}
  /\ ResetCall(p)
  /\ KeepSession
  /\ UNCHANGED <<now, streamVars, colorVars, mirrorVars>>

\* The instants the clock visits: each full second and the millisecond before it.
Instants == {k * MS_PER_S + j : k \in 0..MaxSeconds, j \in {0, MS_PER_S - 1}}

Tick(t) ==
  /\ t > now
  /\ now' = t
  /\ UNCHANGED <<authVars, streamVars, colorVars, mirrorVars>>

---------------------------------------------------------------------------
(***************************************************************************)
(* subscribeToDeviceUpdates: the connect closure and the cancel function.  *)
(*                                                                         *)
(* The connect closure of a subscription runs one invocation at a time: an *)
(* invocation is started by the subscription or by the timer the previous  *)
(* invocation armed on ending. So of the AbortControllers a subscription   *)
(* has created only the latest can still be referenced (by the client's    *)
(* field or by a pending fetch), and of its timers only the latest can be  *)
(* armed: a controller and a timer are named by the subscription whose     *)
(* connect created them.                                                   *)
(***************************************************************************)

\* connect() is invoked: it runs to the await of ensureAuthenticated.
ConnectStart(s) ==
  /\ phase' = [phase EXCEPT ![s] = "auth"]
  /\ lastEnd' = [lastEnd EXCEPT ![s] = "none"]
  /\ errorReported' = [errorReported EXCEPT ![s] = FALSE]
  /\ EnsureAuthenticated(s)

\* A finally block that gives up once the reconnect timer has fired.
FinallyOnce(s) ==
  IF (streamAbortController = 0 \/ ~ctrlAborted[streamAbortController])
     /\ ~reconnecting[s]
  THEN /\ restartTimer' = [restartTimer EXCEPT ![s] = RECONNECT_DELAY_MS]
       /\ eventSourceRestartTimer' = s
       /\ phase' = [phase EXCEPT ![s] = "waiting"]
  ELSE /\ phase' = [phase EXCEPT ![s] = "stopped"]
       /\ UNCHANGED <<restartTimer, eventSourceRestartTimer>>

\* The finally block of connect: arm the reconnect timer unless the client's
\* current controller is aborted.
Finally(s) ==
  IF streamAbortController = 0 \/ ~ctrlAborted[streamAbortController]
  THEN /\ restartTimer' = [restartTimer EXCEPT ![s] = RECONNECT_DELAY_MS]
       /\ eventSourceRestartTimer' = s
       /\ phase' = [phase EXCEPT ![s] = "waiting"]
  ELSE /\ phase' = [phase EXCEPT ![s] = "stopped"]
       /\ UNCHANGED <<restartTimer, eventSourceRestartTimer>>

\* The catch block for an error that is no AbortError: onError, then finally.
CatchError(s) ==
  /\ lastEnd' = [lastEnd EXCEPT ![s] = "error"]
  /\ errorReported' = [errorReported EXCEPT ![s] = TRUE]
  /\ Finally(s)

\* The catch block for an AbortError: return, then finally.
CatchAbort(s) ==
  /\ lastEnd' = [lastEnd EXCEPT ![s] = "aborted"]
  /\ errorReported' = [errorReported EXCEPT ![s] = FALSE]
  /\ Finally(s)

\* consumeEventStream returned: the stream ended; then finally.
EndOfStream(s) ==
  /\ lastEnd' = [lastEnd EXCEPT ![s] = "done"]
  /\ errorReported' = [errorReported EXCEPT ![s] = FALSE]
  /\ Finally(s)

\* this.streamAbortController?.abort()
AbortCurrent ==
  IF streamAbortController = 0 THEN ctrlAborted
  ELSE [ctrlAborted EXCEPT ![streamAbortController] = TRUE]

\* A connect that installs its controller without aborting the previous one.
OpenStreamNoAbort(s) ==
  /\ ctrlAborted' = [ctrlAborted EXCEPT ![s] = FALSE]
  /\ streamAbortController' = s
  /\ phase' = [phase EXCEPT ![s] = "fetching"]
  /\ UNCHANGED <<restartTimer, eventSourceRestartTimer, lastEnd, errorReported>>

\* Abort the previous controller, install a new one, fetch with its signal.
OpenStream(s) ==
  /\ ctrlAborted' = [AbortCurrent EXCEPT ![s] = FALSE]
  /\ streamAbortController' = s
  /\ phase' = [phase EXCEPT ![s] = "fetching"]
  /\ UNCHANGED <<restartTimer, eventSourceRestartTimer, lastEnd, errorReported>>

\* The next call of subscribeToDeviceUpdates: void connect(), and the cancel
\* function is returned.
Subscribe(s) ==
  /\ phase[s] = "idle"
  /\ \A u \in Subs : u < s => phase[u] # "idle"
  /\ ConnectStart(s)
  /\ UNCHANGED <<mirrorVars, colorVars, now, ctrlAborted, streamAbortController, eventSourceRestartTimer,
                 restartTimer, cancelled, cancelTurn, skipRefresh, reconnecting>>

\* The reconnect timer fires: void connect().
TimerFire(s) ==
  /\ restartTimer[s] # 0
  /\ restartTimer' = [restartTimer EXCEPT ![s] = 0]
  /\ reconnecting' = [reconnecting EXCEPT ![s] = TRUE]
  /\ ConnectStart(s)
  /\ UNCHANGED <<mirrorVars, colorVars, now, ctrlAborted, streamAbortController, eventSourceRestartTimer,
                 cancelled, cancelTurn, skipRefresh>>

\* await this.ensureAuthenticated() resolved: onBeforeConnect is invoked.
ConnectAuthResolved(s) ==
  /\ phase[s] = "auth" /\ apc[s] = "resolved"
  /\ ResetCall(s) /\ KeepSession
  /\ phase' = [phase EXCEPT ![s] = "before"]
  /\ UNCHANGED <<mirrorVars, colorVars, now, ctrlAborted, streamAbortController, eventSourceRestartTimer,
                 restartTimer, cancelled, cancelTurn, lastEnd, errorReported,
                 skipRefresh, reconnecting>>

\* await this.ensureAuthenticated() rejected.
ConnectAuthRejected(s) ==
  /\ phase[s] = "auth" /\ apc[s] = "rejected"
  /\ ResetCall(s) /\ KeepSession
  /\ CatchError(s)
  /\ UNCHANGED <<mirrorVars, colorVars, now, ctrlAborted, streamAbortController, cancelled, cancelTurn,
                 skipRefresh, reconnecting>>

\* await onBeforeConnect?.() ended: on success buildDevicesUrl (which throws
\* without a token or a subject id) and the opening of the stream. The
\* platform's callback returns at once while skipRefresh is set, clearing it,
\* and awaits refreshDevicesFromCloud otherwise.
BeforeConnectDone(s, ok) ==
  /\ phase[s] = "before"
  /\ skipRefresh[s] => ok
  /\ skipRefresh' = [skipRefresh EXCEPT ![s] = FALSE]
  /\ IF ok /\ ~Falsy(idToken) /\ ~Falsy(localId)
     THEN OpenStream(s)
     ELSE CatchError(s) /\ UNCHANGED <<ctrlAborted, streamAbortController>>
  /\ UNCHANGED <<mirrorVars, colorVars, now, authVars, cancelled, cancelTurn, reconnecting>>

\* consumeEventStream from the answer of its fetch, on a signal that is not
\* aborted, to the first read: a failed fetch and an answer that is not ok
\* throw.
FetchAnswered(s, r) ==
  /\ phase[s] = "fetching" /\ ~ctrlAborted[s]
  /\ IF r = "ok"
     THEN /\ phase' = [phase EXCEPT ![s] = "streaming"]
          /\ UNCHANGED <<restartTimer, eventSourceRestartTimer, lastEnd, errorReported>>
     ELSE CatchError(s)
  /\ UNCHANGED <<colorVars, now, authVars, ctrlAborted, streamAbortController, cancelled, cancelTurn,
                 skipRefresh, reconnecting>>

\* The fetch of consumeEventStream answers on a signal that is not aborted.
FetchDone(s, r) == FetchAnswered(s, r) /\ UNCHANGED mirrorVars

\* reader.read() reports the end of the stream, or fails.
StreamEnd(s, r) ==
  /\ phase[s] = "streaming" /\ ~ctrlAborted[s]
  /\ IF r = "done" THEN EndOfStream(s) ELSE CatchError(s)
  /\ UNCHANGED <<mirrorVars, colorVars, now, authVars, ctrlAborted, streamAbortController, cancelled, cancelTurn,
                 skipRefresh, reconnecting>>

\* The fetch or the read on an aborted signal rejects with an AbortError.
StreamAborted(s) ==
  /\ phase[s] \in {"fetching", "streaming"} /\ ctrlAborted[s]
  /\ CatchAbort(s)
  /\ UNCHANGED <<mirrorVars, colorVars, now, authVars, ctrlAborted, streamAbortController, cancelled, cancelTurn,
                 skipRefresh, reconnecting>>

\* clearTimeout(handle) when the handle is set.
ClearedBy(handle, u) == handle # 0 /\ handle = u /\ restartTimer[u] # 0

\* The cancel function: abort the current controller, clear the timer the
\* client's handle names.
Cancel(s) ==
  /\ phase[s] # "idle"
  /\ cancelled' = [cancelled EXCEPT ![s] = TRUE]
  /\ cancelTurn' = ~cancelTurn
  /\ ctrlAborted' = AbortCurrent
  /\ restartTimer' = [u \in Subs |->
                        IF ClearedBy(eventSourceRestartTimer, u) THEN 0 ELSE restartTimer[u]]
  /\ phase' = [u \in Subs |->
                 IF ClearedBy(eventSourceRestartTimer, u) THEN "stopped" ELSE phase[u]]
  /\ UNCHANGED <<mirrorVars, colorVars, now, authVars, streamAbortController, eventSourceRestartTimer, lastEnd,
                 errorReported, skipRefresh, reconnecting>>

FetchResults == {"ok", "http", "network"}
ReadResults == {"done", "error"}

---------------------------------------------------------------------------
(***************************************************************************)
(* MoonsideLampAccessory: the debounce of hue and saturation sets into one *)
(* colour command.                                                         *)
(***************************************************************************)

Abs(x) == IF x < 0 THEN -x ELSE x
Clamp(x, lo, hi) == IF x < lo THEN lo ELSE IF x > hi THEN hi ELSE x

\* hsvToRgb(hue, saturation, 1) for a whole hue >= 0 and a whole saturation. A
\* channel value v in [0, 1] is given as the integer 6000 * v: h = hue % 360 / 60
\* and s = saturation / 100 make every term a multiple of 1/6000.
HsvToRgb(hue, saturation) ==
  LET h60 == hue % 360
      s100 == Clamp(saturation, 0, 100)
      c == 60 * s100
      x == s100 * (60 - Abs((h60 % 120) - 60))
      m == 6000 - c
      rgb == IF h60 < 60 THEN <<c, x, 0>>
             ELSE IF h60 < 120 THEN <<x, c, 0>>
             ELSE IF h60 < 180 THEN <<0, c, x>>
             ELSE IF h60 < 240 THEN <<0, x, c>>
             ELSE IF h60 < 300 THEN <<x, 0, c>>
             ELSE <<c, 0, x>>
  IN [r |-> Clamp(rgb[1] + m, 0, 6000),
      g |-> Clamp(rgb[2] + m, 0, 6000),
      b |-> Clamp(rgb[3] + m, 0, 6000)]

\* Math.max(0, Math.min(255, Math.round(value * 255)))
ClampByte(v6000) == Clamp((2 * 255 * v6000 + 6000) \div 12000, 0, 255)

\* value.toString().padStart(3, '0'), as digits
Pad3(n) == <<n \div 100, (n \div 10) % 10, n % 10>>

\* buildColorCommand: "COLOR" and the three padded bytes
BuildColorCommand(rgb) ==
  [op |-> "COLOR",
   digits |-> Pad3(ClampByte(rgb.r)) \o Pad3(ClampByte(rgb.g)) \o Pad3(ClampByte(rgb.b))]

\* clearTimeout(this.colorUpdateTimeout) when the handle is set; a handle of a
\* timer that has fired or was cleared names no armed timer.
ClearColorTimer == IF colorUpdateTimeout = 0 THEN colorTimers ELSE colorTimers \ {colorUpdateTimeout}

\* A schedule that arms its timer without clearing the one before.
ArmColorTimerNoClear(k) ==
  /\ colorTimers' = colorTimers \cup {k}
  /\ colorUpdateTimeout' = k

\* The timer part of scheduleColorUpdate: clear the timer of the handle, arm a
\* new one of 150 ms.
ArmColorTimer(k) ==
  /\ colorTimers' = ClearColorTimer \cup {k}
  /\ colorUpdateTimeout' = k

\* scheduleColorUpdate(): create the promise if there is none, restart the timer.
\* The call is recorded with the promise it returns.
ScheduleColorUpdate(hue, saturation) ==
  LET k == Len(submits) + 1
      promise == IF colorUpdatePromise = 0 THEN k ELSE colorUpdatePromise
  IN /\ colorUpdatePromise' = promise
     /\ settled' = IF colorUpdatePromise = 0 THEN [settled EXCEPT ![k] = "pending"] ELSE settled
     /\ ArmColorTimer(k)
     /\ submits' = Append(submits, [at |-> now, promise |-> promise,
                                    hue |-> hue, saturation |-> saturation])

HandleSetHue(value) ==
  /\ Len(submits) < MaxSubmits
  /\ targetHue' = value
  /\ ScheduleColorUpdate(value, targetSaturation)
  /\ UNCHANGED <<mirrorVars, now, authVars, streamVars, targetSaturation, commands, inflight, destroyed,
                 atDestroy, settledBy>>

HandleSetSaturation(value) ==
  /\ Len(submits) < MaxSubmits
  /\ targetSaturation' = value
  /\ ScheduleColorUpdate(targetHue, value)
  /\ UNCHANGED <<mirrorVars, now, authVars, streamVars, targetHue, commands, inflight, destroyed,
                 atDestroy, settledBy>>

\* pushColorUpdate(), to its await of sendControl.
PushColorUpdate ==
  /\ commands' = Append(commands,
                        [command |-> BuildColorCommand(HsvToRgb(targetHue, targetSaturation)),
                         after |-> Len(submits), at |-> now, result |-> "pending"])
  /\ inflight' = inflight \cup {Len(commands) + 1}

\* The instant the timer armed by submit k is due.
DueAt(k) == submits[k].at + COLOR_DEBOUNCE_MS

\* The debounce timer k fires, at its due instant or later: the handle is reset
\* and pushColorUpdate is called.
ColorTimerFire(k) ==
  /\ k \in colorTimers /\ now >= DueAt(k)
  /\ colorTimers' = colorTimers \ {k}
  /\ colorUpdateTimeout' = 0
  /\ PushColorUpdate
  /\ UNCHANGED <<mirrorVars, now, authVars, streamVars, targetHue, targetSaturation, colorUpdatePromise,
                 submits, settled, destroyed, atDestroy, settledBy>>

\* settleColorPromise(error): settle the pending promise, if any, and drop it;
\* by is the command whose end settles it, -1 for destroy.
SettleColorPromise(ok, by) ==
  /\ settled' = IF colorUpdatePromise = 0 THEN settled
                ELSE [settled EXCEPT ![colorUpdatePromise] = IF ok THEN "resolved" ELSE "rejected"]
  /\ settledBy' = IF colorUpdatePromise = 0 THEN settledBy
                  ELSE [settledBy EXCEPT ![colorUpdatePromise] = by]
  /\ colorUpdatePromise' = 0

\* A settling that happens only when the command has succeeded.
SettleOnSuccess(ok, by) ==
  IF ok THEN SettleColorPromise(ok, by) ELSE UNCHANGED <<settled, settledBy, colorUpdatePromise>>

\* The end of pushColorUpdate: .then(() => settleColorPromise()) or
\* .catch(error => settleColorPromise(error)).
SettleAfterPush(ok, by) == SettleColorPromise(ok, by)

\* sendControl of command c ends: pushColorUpdate returns or throws, and the
\* promise is settled.
ColorCommandDone(c, ok) ==
  /\ c \in inflight
  /\ inflight' = inflight \ {c}
  /\ commands' = [commands EXCEPT ![c].result = IF ok THEN "ok" ELSE "failed"]
  /\ SettleAfterPush(ok, c)
  /\ UNCHANGED <<mirrorVars, now, authVars, streamVars, targetHue, targetSaturation, colorUpdateTimeout,
                 colorTimers, submits, destroyed, atDestroy>>

\* A destroy that leaves the debounce timer armed.
DestroyNoClear ==
  /\ ~destroyed
  /\ destroyed' = TRUE
  /\ atDestroy' = [submits |-> Len(submits), commands |-> Len(commands)]
  /\ SettleColorPromise(TRUE, -1)
  /\ UNCHANGED <<mirrorVars, now, authVars, streamVars, targetHue, targetSaturation, colorUpdateTimeout,
                 colorTimers, submits, commands, inflight>>

\* destroy(), called once by removeAccessory: clear the debounce timer (the
\* handle stays) and settle the pending promise as resolved.
Destroy ==
  /\ ~destroyed
  /\ destroyed' = TRUE
  /\ atDestroy' = [submits |-> Len(submits), commands |-> Len(commands)]
  /\ colorTimers' = ClearColorTimer
  /\ SettleColorPromise(TRUE, -1)
  /\ UNCHANGED <<mirrorVars, now, authVars, streamVars, targetHue, targetSaturation, colorUpdateTimeout,
                 submits, commands, inflight>>

ColorTickMs == COLOR_DEBOUNCE_MS \div 3

ColorTick ==
  /\ now < MaxColorTicks * ColorTickMs
  /\ now' = now + ColorTickMs
  /\ UNCHANGED <<authVars, streamVars, colorVars, mirrorVars>>

Hues == {0, 120}
Saturations == {0, 100}

Max3(a, b, c) == IF a >= b /\ a >= c THEN a ELSE IF b >= c THEN b ELSE c
Min3(a, b, c) == IF a <= b /\ a <= c THEN a ELSE IF b <= c THEN b ELSE c

\* parseColor for controlData "COLOR" and nine digits: the three bytes, each
\* of them the numerator of a channel over 255.
ParseColor(digits) ==
  [r |-> 100 * digits[1] + 10 * digits[2] + digits[3],
   g |-> 100 * digits[4] + 10 * digits[5] + digits[6],
   b |-> 100 * digits[7] + 10 * digits[8] + digits[9]]

\* rgbToHsv for channels given as bytes over 255, where the hue and the
\* saturation are whole numbers (the quotients below are exact for CloudColors).
RgbToHsv(rgb) ==
  LET max == Max3(rgb.r, rgb.g, rgb.b)
      min == Min3(rgb.r, rgb.g, rgb.b)
      delta == max - min
      sixths == IF delta = 0 THEN 0
                ELSE IF max = rgb.r THEN (60 * (rgb.g - rgb.b)) \div delta
                ELSE IF max = rgb.g THEN (60 * (rgb.b - rgb.r)) \div delta + 120
                ELSE (60 * (rgb.r - rgb.g)) \div delta + 240
  IN [h |-> IF sixths < 0 THEN sixths + 360 ELSE sixths,
      s |-> IF max = 0 THEN 0 ELSE (100 * delta) \div max]

\* The colours a cloud state may carry: red, green and white.
CloudColors ==
  {<<2, 5, 5, 0, 0, 0, 0, 0, 0>>, <<0, 0, 0, 2, 5, 5, 0, 0, 0>>, <<2, 5, 5, 2, 5, 5, 2, 5, 5>>}

\* updateFromCloud(update), by the stream or by a poll, when the merged state
\* has a colour: applyStateFromCloud sets the targets from it.
CloudUpdate(digits) ==
  LET hs == RgbToHsv(ParseColor(digits))
  IN /\ ~destroyed
     /\ targetHue' = hs.h
     /\ targetSaturation' = hs.s
     /\ UNCHANGED <<mirrorVars, now, authVars, streamVars, colorUpdatePromise, colorUpdateTimeout,
                    submits, settled, commands, inflight, colorTimers, destroyed, atDestroy,
                    settledBy>>

---------------------------------------------------------------------------
(***************************************************************************)
(* MoonsideCloudPlatform: the accessories kept in step with the cloud by   *)
(* snapshots (syncDeviceSnapshot) and by stream events (the onUpdate       *)
(* callback of startRealtimeStream).                                       *)
(*                                                                         *)
(* registerOrUpdateAccessory and registerOrUpdateThemeAccessory are async  *)
(* functions without an await inside: their bodies run within the call,    *)
(* and the caller's await of them resumes in a microtask, before any other *)
(* I/O callback. So a snapshot pass runs without interleaving, the events  *)
(* of one stream chunk are handled in order up to the first await of each  *)
(* callback, and the suspended callbacks resume in that order afterwards.  *)
(***************************************************************************)

Devices == 1..MaxDevices

\* api.hap.uuid.generate(deviceId) and generate(`${deviceId}:themes`)
LampUuid(d) == <<"lamp", d>>
ThemeUuid(d) == <<"themes", d>>

\* accessory.context.device.deviceId
DeviceOf(uuid) == uuid[2]

\* String.prototype.toLowerCase on the letters of the theme names.
LowerChar(c) == IF c = "R" THEN "r" ELSE IF c = "S" THEN "s" ELSE c
ToLowerCase(name) == [i \in 1..Len(name) |-> LowerChar(name[i])]

\* Theme names the configuration or the catalog may hold.
ThemeConfigs ==
  {<<>>, <<<<"R", "s">>>>, <<<<"s">>, <<"R", "s">>>>, <<<<"t">>, <<"r", "S">>>>}

\* Catalogs: the ThemeDefinitions fetchThemeLibrary builds, in payload order.
Catalogs ==
  {<<>>,
   <<[id |-> 1, name |-> <<"r", "s">>]>>,
   <<[id |-> 1, name |-> <<"R", "S">>], [id |-> 2, name |-> <<"S">>]>>,
   <<[id |-> 1, name |-> <<"R", "s">>], [id |-> 2, name |-> <<"r", "s">>]>>}

\* themes.set(name.toLowerCase(), def) for every entry, then library.get(key):
\* the last entry of that key, if any.
LibraryKeys(entries) == {ToLowerCase(entries[i].name) : i \in 1..Len(entries)}
LibraryGet(entries, key) ==
  LET at == {i \in 1..Len(entries) : ToLowerCase(entries[i].name) = key}
  IN entries[CHOOSE i \in at : \A j \in at : j <= i]

\* A lookup of the name as configured, without lowering its case.
LookupKeyExact(themeName) == themeName

\* themeName.toLowerCase()
LookupKey(themeName) == ToLowerCase(themeName)

\* The loop of resolveThemeDefinitions over the configured names.
RECURSIVE Selected(_, _)
Selected(names, entries) ==
  IF names = <<>> THEN <<>>
  ELSE LET key == LookupKey(Head(names))
       IN (IF key \in LibraryKeys(entries) THEN <<LibraryGet(entries, key)>> ELSE <<>>)
            \o Selected(Tail(names), entries)

RECURSIVE Warnings(_, _)
Warnings(names, entries) ==
  IF names = <<>> THEN <<>>
  ELSE (IF LookupKey(Head(names)) \in LibraryKeys(entries) THEN <<>> ELSE <<Head(names)>>)
         \o Warnings(Tail(names), entries)

\* The three maps of the platform, as one value the operations transform.
Platform ==
  [accessories |-> accessories, accessoriesByDeviceId |-> accessoriesByDeviceId,
   themeAccessories |-> themeAccessories]

SetPlatform(P) ==
  /\ accessories' = P.accessories
  /\ accessoriesByDeviceId' = P.accessoriesByDeviceId
  /\ themeAccessories' = P.themeAccessories

MapSet(f, d, v) == [x \in DOMAIN f \cup {d} |-> IF x = d THEN v ELSE f[x]]
MapDelete(f, d) == [x \in DOMAIN f \ {d} |-> f[x]]
EmptyMap == [x \in {} |-> <<>>]

\* registerOrUpdateAccessory(deviceId, state)
RegisterOrUpdateAccessory(P, d) ==
  [P EXCEPT !.accessories = @ \cup {LampUuid(d)},
            !.accessoriesByDeviceId = @ \cup {d}]

\* removeThemeAccessory(deviceId)
RemoveThemeAccessory(P, d) ==
  [P EXCEPT !.accessories = @ \ {ThemeUuid(d)},
            !.themeAccessories = MapDelete(@, d)]

\* A removal of an accessory that leaves the theme accessory of its device.
RemoveAccessoryNoCascade(P, d, uuid) ==
  [P EXCEPT !.accessories = @ \ {uuid},
            !.accessoriesByDeviceId = @ \ {d}]

\* removeAccessory(deviceId, accessory)
RemoveAccessory(P, d, uuid) ==
  RemoveThemeAccessory([P EXCEPT !.accessories = @ \ {uuid},
                                 !.accessoriesByDeviceId = @ \ {d}], d)

\* A registration that keeps an existing theme accessory when there are no themes.
RegisterOrUpdateThemeAccessoryKeep(P, d, themes) ==
  IF themes = <<>> THEN P
  ELSE [P EXCEPT !.accessories = @ \cup {ThemeUuid(d)},
                 !.themeAccessories = MapSet(@, d, themes)]

\* registerOrUpdateThemeAccessory(deviceId, deviceName, themes)
RegisterOrUpdateThemeAccessory(P, d, themes) ==
  IF themes = <<>>
  THEN IF ThemeUuid(d) \in P.accessories THEN RemoveThemeAccessory(P, d) ELSE P
  ELSE [P EXCEPT !.accessories = @ \cup {ThemeUuid(d)},
                 !.themeAccessories = MapSet(@, d, themes)]

\* refreshThemeAccessories(definitions)
RECURSIVE RemoveThemeAccessories(_, _)
RemoveThemeAccessories(P, ids) ==
  IF ids = {} THEN P
  ELSE LET d == CHOOSE x \in ids : TRUE
       IN RemoveThemeAccessories(RemoveThemeAccessory(P, d), ids \ {d})

RefreshThemeAccessories(P, definitions) ==
  IF definitions = <<>> THEN RemoveThemeAccessories(P, DOMAIN P.themeAccessories)
  ELSE [P EXCEPT !.themeAccessories = [d \in DOMAIN @ |-> definitions]]

\* The accessories the second loop of syncDeviceSnapshot removes.
StaleAccessories(P, seen) == {a \in P.accessories : DeviceOf(a) \notin seen}

RECURSIVE RemoveStale(_, _)
RemoveStale(P, seen) ==
  IF StaleAccessories(P, seen) = {} THEN P
  ELSE LET a == CHOOSE x \in StaleAccessories(P, seen) : TRUE
       IN RemoveStale(RemoveAccessory(P, DeviceOf(a), a), seen)

\* this.themeDefinitionsCache ?? []
CachedThemes == IF themeDefinitionsCache.set THEN themeDefinitionsCache.defs ELSE <<>>

NoRefresh == [pc |-> "idle", present |-> {}, nulls |-> {}, todo |-> {}, seen |-> {}, themes |-> <<>>]

\* No callback is running or suspended and no snapshot pass is under way: the
\* next I/O callback may run.
Quiet == micro = <<>> /\ refresh.pc \in {"idle", "catalog"}

RecordThemeOp(d, themes) ==
  themeOp' = [turn |-> ~themeOp.turn, device |-> d, themes |-> themes]

\* The snapshots fetchDevices returns: a state or null per device id.
Snapshots ==
  {sn \in [present : SUBSET Devices, nulls : SUBSET Devices] : sn.present \cap sn.nulls = {}}

\* The continuation of discoverDevices / refreshDevicesFromCloud after
\* fetchDevices: resolveThemeDefinitions, to its return or to its await of
\* fetchThemeLibrary.
RefreshDevicesFromCloud(sn) ==
  /\ Quiet /\ refresh.pc = "idle"
  /\ lastSync = "none" \/ streamUnsubscribe
  /\ IF themeSwitchNames = <<>>
     THEN /\ themeDefinitionsCache' = [set |-> TRUE, defs |-> <<>>]
          /\ SetPlatform(RefreshThemeAccessories(Platform, <<>>))
          /\ refresh' = [pc |-> "sync", present |-> sn.present, nulls |-> sn.nulls,
                         todo |-> sn.present \cup sn.nulls, seen |-> {}, themes |-> <<>>]
     ELSE /\ refresh' = [pc |-> IF themeDefinitionsCache.set THEN "sync" ELSE "catalog",
                         present |-> sn.present, nulls |-> sn.nulls,
                         todo |-> sn.present \cup sn.nulls, seen |-> {},
                         themes |-> CachedThemes]
          /\ UNCHANGED <<themeDefinitionsCache, accessories, accessoriesByDeviceId,
                         themeAccessories>>
  /\ UNCHANGED <<now, authVars, streamVars, colorVars, wireVars, decoderVars, themeSwitchNames, library, warned,
                 draining, micro, deleted, themeOp, lastSync>>

CatalogResults ==
  {[ok |-> TRUE, entries |-> c] : c \in Catalogs} \cup {[ok |-> FALSE, entries |-> <<>>]}

\* A catch of resolveThemeDefinitions that caches the empty list it returns.
CacheEmpty ==
  /\ themeDefinitionsCache' = [set |-> TRUE, defs |-> <<>>]
  /\ UNCHANGED <<library, warned, accessories, accessoriesByDeviceId, themeAccessories>>

\* The catch of resolveThemeDefinitions: it logs and returns [], and leaves
\* the cache and the accessories as they are.
KeepCache ==
  UNCHANGED <<library, warned, themeDefinitionsCache, accessories, accessoriesByDeviceId,
              themeAccessories>>

\* fetchThemeLibrary ended: the rest of resolveThemeDefinitions.
CatalogDone(r) ==
  /\ refresh.pc = "catalog" /\ micro = <<>>
  /\ IF r.ok
     THEN LET selected == Selected(themeSwitchNames, r.entries)
          IN /\ library' = r.entries
             /\ warned' = Warnings(themeSwitchNames, r.entries)
             /\ themeDefinitionsCache' = [set |-> TRUE, defs |-> selected]
             /\ SetPlatform(RefreshThemeAccessories(Platform, selected))
             /\ refresh' = [refresh EXCEPT !.pc = "sync", !.themes = selected]
             /\ catalogLog' = "loaded"
     ELSE /\ refresh' = [refresh EXCEPT !.pc = "sync", !.themes = <<>>]
          /\ catalogLog' = "error"
          /\ KeepCache
  /\ UNCHANGED <<now, authVars, streamVars, colorVars, decoderVars, frameVars, requestVars,
                 outletVars, readVars, streamUnsubscribe, discoverLog, themeSwitchNames, draining, micro,
                 deleted, themeOp, lastSync>>

\* One turn of the first loop of syncDeviceSnapshot, for the entry of device d.
SyncDevice(d) ==
  /\ refresh.pc = "sync" /\ d \in refresh.todo
  /\ IF d \in refresh.nulls
     THEN /\ refresh' = [refresh EXCEPT !.todo = @ \ {d}]
          /\ UNCHANGED <<accessories, accessoriesByDeviceId, themeAccessories, themeOp,
                         deleted>>
     ELSE /\ SetPlatform(RegisterOrUpdateThemeAccessory(
                           RegisterOrUpdateAccessory(Platform, d), d, refresh.themes))
          /\ RecordThemeOp(d, refresh.themes)
          /\ refresh' = [refresh EXCEPT !.todo = @ \ {d}, !.seen = @ \cup {d}]
          /\ deleted' = deleted \ {d}
  /\ UNCHANGED <<now, authVars, streamVars, colorVars, wireVars, decoderVars, themeSwitchNames,
                 themeDefinitionsCache, library, warned, draining, micro, lastSync>>

\* The second loop of syncDeviceSnapshot, and its return.
SyncFinish ==
  /\ refresh.pc = "sync" /\ refresh.todo = {}
  /\ SetPlatform(RemoveStale(Platform, refresh.seen))
  /\ lastSync' = IF \E a \in StaleAccessories(Platform, refresh.seen) :
                       DeviceOf(a) \in accessoriesByDeviceId
                  THEN "removed" ELSE "kept"
  /\ refresh' = NoRefresh
  /\ UNCHANGED <<now, authVars, streamVars, colorVars, wireVars, decoderVars, themeSwitchNames,
                 themeDefinitionsCache, library, warned, draining, micro, deleted, themeOp>>

\* discoverDevices: fetchDevices rejected, or syncDeviceSnapshot threw in one
\* of its registrations; the catch logs the error and discoverDevices returns.
DiscoverFailed ==
  /\ lastSync = "none" /\ discoverLog = "none"
  /\ refresh.pc \in {"idle", "sync"}
  /\ discoverLog' = "error"
  /\ refresh' = [NoRefresh EXCEPT !.pc = "failed"]
  /\ UNCHANGED <<now, authVars, streamVars, colorVars, decoderVars, frameVars, requestVars,
                 outletVars, readVars, accessories, accessoriesByDeviceId, themeAccessories,
                 themeSwitchNames, themeDefinitionsCache, library, warned, draining, micro,
                 deleted, themeOp, lastSync, streamUnsubscribe, catalogLog>>

\* A start of the stream that does not wait for the snapshot pass.
StartRealtimeStreamEarly ==
  /\ refresh.pc \in {"idle", "catalog", "sync"} /\ ~streamUnsubscribe
  /\ streamUnsubscribe' = TRUE
  /\ UNCHANGED <<now, authVars, streamVars, colorVars, platformVars, decoderVars, frameVars,
                 requestVars, outletVars, readVars, discoverLog, catalogLog>>

\* discoverDevices after its await of syncDeviceSnapshot: startRealtimeStream(true)
\* subscribes and keeps the unsubscribe function.
StartRealtimeStream ==
  /\ refresh.pc = "idle" /\ lastSync # "none" /\ ~streamUnsubscribe
  /\ streamUnsubscribe' = TRUE
  /\ UNCHANGED <<now, authVars, streamVars, colorVars, platformVars, decoderVars, frameVars,
                 requestVars, outletVars, readVars, discoverLog, catalogLog>>

\* The events of the stream: an update or a deletion (null) of a device.
StreamEvents == [id : Devices, update : {"state", "null"}]

\* onUpdate(deviceId, update) for an event of the stream, to its return or to
\* its first await that suspends. The events of one chunk are handled one after
\* the other before any suspended callback resumes. The platform subscribes
\* once, after its first snapshot pass, and a later pass runs in onBeforeConnect,
\* when the stream of the subscription is not open.
HandleEvent(e) ==
  /\ refresh.pc = "idle" /\ streamUnsubscribe /\ ~draining /\ Len(micro) < MaxPending
  /\ LET d == e.id
     IN IF e.update = "null"
        THEN /\ SetPlatform(IF LampUuid(d) \in accessories
                            THEN RemoveAccessory(Platform, d, LampUuid(d))
                            ELSE Platform)
             /\ deleted' = deleted \cup {d}
             /\ UNCHANGED <<micro, themeOp>>
        ELSE /\ deleted' = deleted \ {d}
             /\ IF d \in accessoriesByDeviceId
                THEN /\ SetPlatform(RegisterOrUpdateThemeAccessory(Platform, d, CachedThemes))
                     /\ RecordThemeOp(d, CachedThemes)
                     /\ UNCHANGED micro
                ELSE /\ SetPlatform(RegisterOrUpdateAccessory(Platform, d))
                     /\ micro' = Append(micro, d)
                     /\ UNCHANGED themeOp
  /\ UNCHANGED <<now, authVars, streamVars, colorVars, wireVars, decoderVars, themeSwitchNames,
                 themeDefinitionsCache, library, warned, refresh, draining, lastSync>>

\* The chunk is handled and its read awaits the next: the callback suspended
\* first resumes after its await of registerOrUpdateAccessory and calls
\* registerOrUpdateThemeAccessory.
ResumeCallback ==
  /\ micro # <<>>
  /\ micro' = Tail(micro)
  /\ draining' = (Tail(micro) # <<>>)
  /\ SetPlatform(RegisterOrUpdateThemeAccessory(Platform, Head(micro), CachedThemes))
  /\ RecordThemeOp(Head(micro), CachedThemes)
  /\ UNCHANGED <<now, authVars, streamVars, colorVars, wireVars, decoderVars, themeSwitchNames,
                 themeDefinitionsCache, library, warned, refresh, deleted, lastSync>>

\* The constructor: the configured theme names, trimmed, the empty ones dropped.
Constructor(names) ==
  /\ refresh.pc = "new"
  /\ themeSwitchNames' = names
  /\ refresh' = [refresh EXCEPT !.pc = "restoring"]
  /\ UNCHANGED <<now, authVars, streamVars, colorVars, wireVars, decoderVars, accessories, accessoriesByDeviceId,
                 themeAccessories, themeDefinitionsCache, library, warned, draining, micro,
                 deleted, themeOp, lastSync>>

\* The accessories Homebridge has in its cache at launch are those of one
\* device, a theme accessory only along with the lamp it was registered after.
Restorable == {LampUuid(1), ThemeUuid(1)}

\* configureAccessory(accessory): a theme accessory gets a handler without themes.
ConfigureAccessory(uuid) ==
  /\ refresh.pc = "restoring"
  /\ uuid \notin accessories
  /\ uuid[1] = "themes" => LampUuid(DeviceOf(uuid)) \in accessories
  /\ accessories' = accessories \cup {uuid}
  /\ themeAccessories' = IF uuid[1] = "themes" THEN MapSet(themeAccessories, DeviceOf(uuid), <<>>)
                         ELSE themeAccessories
  /\ UNCHANGED <<now, authVars, streamVars, colorVars, wireVars, decoderVars, accessoriesByDeviceId, themeSwitchNames,
                 themeDefinitionsCache, library, warned, refresh, draining, micro, deleted,
                 themeOp, lastSync>>

\* didFinishLaunching: discoverDevices starts and awaits fetchDevices.
DidFinishLaunching ==
  /\ refresh.pc = "restoring"
  /\ refresh' = [refresh EXCEPT !.pc = "idle"]
  /\ UNCHANGED <<now, authVars, streamVars, colorVars, wireVars, decoderVars, accessories, accessoriesByDeviceId,
                 themeAccessories, themeSwitchNames, themeDefinitionsCache, library, warned,
                 draining, micro, deleted, themeOp, lastSync>>

---------------------------------------------------------------------------
(***************************************************************************)
(* The stream decoder: processSseEvent, handleStreamPayload,               *)
(* inflateNestedData, and the cached state of one lamp handler.            *)
(*                                                                         *)
(* A string is the sequence of its character codes. A JSON value is the    *)
(* set of its <<path, leaf>> pairs, a path being the sequence of the keys  *)
(* that lead to the leaf: a scalar is {<<<<>>, leaf>>}, the empty object   *)
(* is {}, and an empty object under a key is the leaf "{}".                *)
(***************************************************************************)

Leaf(l) == {<<<<>>, l>>}
JsonNull == Leaf("null")
EmptyObject == {}
IsObject(v) == \A e \in v : e[1] # <<>>

\* { [key]: value }
Obj1(key, value) ==
  IF value = EmptyObject THEN {<<<<key>>, "{}">>}
  ELSE {<<<<key>> \o e[1], e[2]>> : e \in value}

\* Object.keys(o)
TopKeys(o) == {e[1][1] : e \in {x \in o : x[1] # <<>>}}

\* o[key], for a key of o
Get(o, key) ==
  LET under == {<<Tail(e[1]), e[2]>> : e \in {x \in o : x[1] # <<>> /\ x[1][1] = key}}
  IN IF under = {<<<<>>, "{}">>} THEN EmptyObject ELSE under

\* { ...a, ...b } for two objects: the keys of b replace those of a as a whole.
SpreadReplace(a, b) == b
Spread(a, b) == {e \in a : e[1][1] \notin TopKeys(b)} \cup b

\* The hexadecimal digits 0-9, A-F, a-f and their values.
IsHex(c) == c \in (48..57) \cup (65..70) \cup (97..102)
HexValue(c) == IF c <= 57 THEN c - 48 ELSE IF c <= 70 THEN c - 55 ELSE c - 87

\* decodeURIComponent(s): [ok, value], ok FALSE when it throws URIError. A "%"
\* (37) must be followed by two hexadecimal digits; the byte they give is the
\* character itself below 128; a byte from 128 on begins or continues a longer
\* character, which no input here spells out in full.
RECURSIVE DecodeURIComponent(_)
DecodeURIComponent(s) ==
  IF s = <<>> THEN [ok |-> TRUE, value |-> <<>>]
  ELSE IF s[1] # 37
       THEN LET rest == DecodeURIComponent(Tail(s))
            IN [ok |-> rest.ok, value |-> IF rest.ok THEN <<s[1]>> \o rest.value ELSE <<>>]
       ELSE IF Len(s) < 3 \/ ~IsHex(s[2]) \/ ~IsHex(s[3])
            THEN [ok |-> FALSE, value |-> <<>>]
            ELSE LET byte == 16 * HexValue(s[2]) + HexValue(s[3])
                     rest == DecodeURIComponent(SubSeq(s, 4, Len(s)))
                 IN IF byte >= 128 \/ ~rest.ok
                    THEN [ok |-> FALSE, value |-> <<>>]
                    ELSE [ok |-> TRUE, value |-> <<byte>> \o rest.value]

\* s.split('/'), "/" being 47.
RECURSIVE Split(_)
Split(s) ==
  IF \A i \in 1..Len(s) : s[i] # 47 THEN <<s>>
  ELSE LET i == CHOOSE j \in 1..Len(s) : s[j] = 47 /\ \A h \in 1..(j - 1) : s[h] # 47
       IN <<SubSeq(s, 1, i - 1)>> \o Split(SubSeq(s, i + 1, Len(s)))

\* keys.reduceRight((acc, key) => ({ [key]: acc }), value)
RECURSIVE ReduceRight(_, _)
ReduceRight(keys, acc) ==
  IF keys = <<>> THEN acc
  ELSE ReduceRight(SubSeq(keys, 1, Len(keys) - 1), Obj1(keys[Len(keys)], acc))

InflateNestedData(keys, value) == IF Len(keys) = 0 THEN value ELSE ReduceRight(keys, value)

OnUpdate(deviceId, update) == [deviceId |-> deviceId, update |-> update]

\* The loop over Object.entries(data) of a root payload: the calls of onUpdate
\* it makes, and whether decodeURIComponent threw and ended it.
RECURSIVE FanOut(_)
FanOut(entries) ==
  IF entries = <<>> THEN [calls |-> <<>>, thrown |-> FALSE]
  ELSE LET decodedId == DecodeURIComponent(entries[1][1])
       IN IF ~decodedId.ok THEN [calls |-> <<>>, thrown |-> TRUE]
          ELSE LET rest == FanOut(Tail(entries))
               IN [calls |-> <<OnUpdate(decodedId.value, entries[1][2])>> \o rest.calls,
                   thrown |-> rest.thrown]

IsRootPath(path) == path = <<47>>

\* path.startsWith('/') ? path.slice(1) : path
Trimmed(path) == IF path # <<>> /\ path[1] = 47 THEN Tail(path) ELSE path

\* handleStreamPayload(payload, onUpdate) for the payload {path, data}; entries
\* is Object.entries(data) when data is an object at the root.
HandleStreamPayload(path, data, entries) ==
  IF IsRootPath(path) /\ IsObject(data) THEN FanOut(entries)
  ELSE LET trimmed == Trimmed(path)
       IN IF trimmed = <<>> THEN [calls |-> <<>>, thrown |-> FALSE]
          ELSE LET segments == Split(trimmed)
                   encodedDeviceId == segments[1]
               IN IF encodedDeviceId = <<>> THEN [calls |-> <<>>, thrown |-> FALSE]
                  ELSE LET deviceId == DecodeURIComponent(encodedDeviceId)
                       IN IF ~deviceId.ok THEN [calls |-> <<>>, thrown |-> TRUE]
                          ELSE IF data = JsonNull
                               THEN [calls |-> <<OnUpdate(deviceId.value, JsonNull)>>,
                                     thrown |-> FALSE]
                               ELSE [calls |-> <<OnUpdate(deviceId.value,
                                                          InflateNestedData(Tail(segments), data))>>,
                                     thrown |-> FALSE]

\* The device whose lamp handler is followed: "A".
TrackedId == <<65>>

\* updateFromCloud(update) on a handler whose cached state is cached.
UpdateFromCloud(cached, update) == Spread(cached, update)

\* The platform's onUpdate callback, as far as the followed handler goes: a
\* deletion removes it, an update merges into its cached state, and an update
\* for a device without handler constructs one from an empty cached state.
ApplyUpdate(st, call) ==
  IF call.deviceId # TrackedId THEN st
  ELSE IF call.update = JsonNull THEN [cached |-> EmptyObject, handler |-> FALSE]
  ELSE IF st.handler THEN [cached |-> UpdateFromCloud(st.cached, call.update), handler |-> TRUE]
  ELSE [cached |-> UpdateFromCloud(EmptyObject, call.update), handler |-> TRUE]

\* The calls hold a deletion of the followed device: its handler is destroyed,
\* and what a pending handleSetOn of that handler writes is not seen again.
Removes(calls) ==
  \E i \in 1..Len(calls) : calls[i].deviceId = TrackedId /\ calls[i].update = JsonNull

RECURSIVE ApplyUpdates(_, _)
ApplyUpdates(st, calls) ==
  IF calls = <<>> THEN st ELSE ApplyUpdates(ApplyUpdate(st, Head(calls)), Tail(calls))

\* The keys of a root payload and the first segments of a path:
\* "A", "%42" (which spells "B"), "%".
StreamKeys == {<<65>>, <<37, 52, 50>>, <<37>>}

\* The keys that follow the identifier in a path: none, "c", "u", "c/u",
\* "c/c", "u/c/u".
KeyPaths == {<<>>, <<<<99>>>>, <<<<117>>>>, <<<<99>>, <<117>>>>, <<<<99>>, <<99>>>>,
             <<<<117>>, <<99>>, <<117>>>>}

\* The device states of a root payload: null, {"o": true}.
RootValues == {JsonNull, Obj1(<<111>>, Leaf("true"))}

\* The data of a payload with a path: null, "LEDON".
PathData == {JsonNull, Leaf("LEDON")}

\* The root payloads: up to MaxEntries entries with distinct keys.
RootEntries ==
  {es \in UNION {[1..n -> StreamKeys \X RootValues] : n \in 0..MaxEntries} :
     \A i, j \in 1..Len(es) : i # j => es[i][1] # es[j][1]}

RECURSIVE Join(_)
Join(segments) ==
  IF Len(segments) = 1 THEN segments[1]
  ELSE segments[1] \o <<47>> \o Join(Tail(segments))

\* The paths: "/", "", "/" and an identifier followed by keys, and an
\* identifier alone.
StreamPaths ==
  {<<47>>, <<>>} \cup StreamKeys \cup
  {<<47>> \o Join(<<id>> \o keys) : id \in StreamKeys, keys \in KeyPaths}

\* The try block of processSseEvent around handleStreamPayload, the handlers
\* having run as far as the lamp handler goes.
TryHandle(path, data, entries) ==
  LET r == HandleStreamPayload(path, data, entries)
      st == ApplyUpdates([cached |-> cachedState, handler |-> lampHandler], r.calls)
  IN /\ streamPath' = path
     /\ streamData' = data
     /\ streamEntries' = entries
     /\ updates' = r.calls
     /\ parseFailed' = r.thrown
     /\ lampHandler' = st.handler
     /\ cachedState' = st.cached
     /\ pendingOn' = IF Removes(r.calls) THEN "none" ELSE pendingOn

\* processSseEvent for a put or patch event whose payload is the JSON of
\* {path, data}.
ProcessSseEvent(path, data, entries) ==
  /\ TryHandle(path, data, entries)
  /\ UNCHANGED <<now, authVars, streamVars, colorVars, wireVars, platformVars>>

\* The object whose Object.entries are entries.
ObjectOf(entries) == UNION {Obj1(entries[i][1], entries[i][2]) : i \in 1..Len(entries)}

\* An event whose data is an object at the root path.
RootEvent(entries) == ProcessSseEvent(<<47>>, ObjectOf(entries), entries)

\* An event with a path and a scalar, null or object data. A device state is an
\* object: a scalar comes under at least one key.
PathEvent(path, data) ==
  /\ IsObject(data) \/ data = JsonNull \/ Trimmed(path) = <<>>
     \/ Len(Split(Trimmed(path))) >= 2
  /\ ~(IsRootPath(path) /\ IsObject(data))
  /\ ProcessSseEvent(path, data, <<>>)

\* The key "on" of a device state.
OnKey == <<111, 110>>

\* handleSetOn(value): the command is handed to sendControl and awaited.
HandleSetOn(value) ==
  /\ lampHandler /\ pendingOn = "none"
  /\ pendingOn' = IF value THEN "true" ELSE "false"
  /\ UNCHANGED <<now, authVars, streamVars, colorVars, wireVars, platformVars, streamPath, streamData,
                 streamEntries, updates, parseFailed, lampHandler, cachedState>>

\* sendControl has ended: on success this.cachedState.on = !!value, on failure
\* the error is logged and a HapStatusError thrown.
SetOnDone(ok) ==
  /\ pendingOn # "none"
  /\ pendingOn' = "none"
  /\ cachedState' = IF ok THEN Spread(cachedState, Obj1(OnKey, Leaf(pendingOn))) ELSE cachedState
  /\ UNCHANGED <<now, authVars, streamVars, colorVars, wireVars, platformVars, streamPath, streamData,
                 streamEntries, updates, parseFailed, lampHandler>>

---------------------------------------------------------------------------
(***************************************************************************)
(* The framed events of an open stream: consumeEventStream hands each      *)
(* block of lines that a blank line ends to processSseEvent.               *)
(*                                                                         *)
(* A line is <<"event", type>> or <<"data", text>>. A text is a sequence   *)
(* of tokens: the braces, <<"path", i>> for "path": the i-th of FramePaths *)
(* and <<"data", j>> for "data": the j-th of FrameData.                    *)
(***************************************************************************)
MaxChunks == 2

LBrace == <<"{", 0>>
RBrace == <<"}", 0>>

\* The paths of the documents: "/", "/A" and "/%".
FramePaths == << <<47>>, <<47>> \o TrackedId, <<47, 37>> >>

\* The data of the documents, as Object.entries: null, and {"A": {"o": "true"}}.
FrameData == << <<>>, << <<TrackedId, Obj1(<<111>>, Leaf("true"))>> >> >>

\* JSON.parse(text): the text has to be one whole document.
ParseJson(text) ==
  IF /\ Len(text) = 4
     /\ text[1] = LBrace /\ text[2][1] = "path" /\ text[3][1] = "data" /\ text[4] = RBrace
  THEN LET entries == FrameData[text[3][2]]
       IN [ok |-> TRUE, path |-> FramePaths[text[2][2]], entries |-> entries,
           data |-> IF entries = <<>> THEN JsonNull ELSE ObjectOf(entries)]
  ELSE [ok |-> FALSE, path |-> <<>>, entries |-> <<>>, data |-> JsonNull]

\* The for loop of processSseEvent over the lines: the last event: line sets
\* the type, the data: lines are concatenated.
RECURSIVE EventTypeOf(_, _)
EventTypeOf(lines, eventType) ==
  IF lines = <<>> THEN eventType
  ELSE EventTypeOf(Tail(lines),
                   IF Head(lines)[1] = "event" THEN Head(lines)[2] ELSE eventType)

RECURSIVE DataPayloadOf(_, _)
DataPayloadOf(lines, dataPayload) ==
  IF lines = <<>> THEN dataPayload
  ELSE DataPayloadOf(Tail(lines),
                     IF Head(lines)[1] = "data" THEN dataPayload \o Head(lines)[2]
                     ELSE dataPayload)

\* A test of the event type that lets the default type through as well.
RecognizedOrDefault(eventType) == eventType \in {"put", "patch", "message"}

\* eventType === 'put' || eventType === 'patch'
Recognized(eventType) == eventType \in {"put", "patch"}

\* A catch block that ends the connect() of the subscription with the error.
Rethrow(s) ==
  /\ CatchError(s)
  /\ UNCHANGED <<ctrlAborted, streamAbortController, cancelled, cancelTurn, skipRefresh,
                 reconnecting>>

\* The catch block of processSseEvent: logger.warn, and the loops of
\* consumeEventStream go on.
WarnAndContinue(s) == UNCHANGED streamVars

\* processSseEvent(rawEvent, onUpdate) on the open stream of subscription s.
SseEvent(s, lines) ==
  LET eventType == EventTypeOf(lines, "message")
      dataPayload == DataPayloadOf(lines, <<>>)
      parsed == ParseJson(dataPayload)
  IN /\ phase[s] = "streaming" /\ ~ctrlAborted[s]
     /\ frameType' = eventType
     /\ frameData' = IF dataPayload = <<>> THEN "empty"
                     ELSE IF parsed.ok THEN "document" ELSE "malformed"
     /\ IF dataPayload = <<>> \/ ~Recognized(eventType)
        THEN /\ frameOutcome' = "ignored"
             /\ UNCHANGED <<frameMalformed, decoderVars, streamVars>>
        ELSE IF ~parsed.ok
        THEN /\ frameOutcome' = "warned"
             /\ frameMalformed' = TRUE
             /\ WarnAndContinue(s)
             /\ UNCHANGED decoderVars
        ELSE /\ TryHandle(parsed.path, parsed.data, parsed.entries)
             /\ frameOutcome' = IF parseFailed' THEN "warned" ELSE "dispatched"
             /\ IF parseFailed' THEN WarnAndContinue(s) ELSE UNCHANGED streamVars
             /\ UNCHANGED frameMalformed
     /\ UNCHANGED <<now, authVars, colorVars, platformVars, requestVars, otherVars>>

\* The event types: two mutations and a keep-alive. An event without an
\* event: line has the default type.
EventTypes == {"put", "patch", "keep-alive"}

\* The texts of the data: lines: none, the first half of a document, and the
\* second half.
Chunks ==
  {<<>>} \cup {<<LBrace, <<"path", i>>>> : i \in DOMAIN FramePaths}
         \cup {<< <<"data", j>>, RBrace>> : j \in DOMAIN FrameData}

\* The framed events: an event: line or none, and up to MaxChunks data: lines.
Frames ==
  {ev \o [i \in DOMAIN cs |-> <<"data", cs[i]>>] :
     ev \in {<<>>} \cup {<< <<"event", t>> >> : t \in EventTypes},
     cs \in UNION {[1..n -> Chunks] : n \in 0..MaxChunks}}

---------------------------------------------------------------------------
(***************************************************************************)
(* The direct requests: getDeviceState, patchDevice (sendControl),         *)
(* fetchDevices and fetchThemeLibrary, made by one caller; and the answer  *)
(* to the fetch of consumeEventStream as an HTTP response.                 *)
(*                                                                         *)
(* A response is <<status, body>>; a fetch that fails has no status.       *)
(***************************************************************************)
NoResponse == <<0, "">>
NetworkError == <<0, "network">>
Unauthenticated == <<0, "Moonside client has not authenticated">>
AuthError == <<0, "auth">>

\* The answers to a fetch: two that are ok, three that are not, one of them
\* with an empty body, and a failure of the fetch itself.
Responses ==
  {<<200, "{}">>, <<204, "">>, <<401, "denied">>, <<404, "null">>, <<503, "">>, NetworkError}

\* response.ok
Ok(response) == response[1] \in 200..299

\* The response has a status, and it is not a success.
HttpFailure(response) == response[1] # 0 /\ ~Ok(response)

DirectRequests == {"getDeviceState", "patchDevice", "fetchDevices", "fetchThemeLibrary"}

\* buildDeviceUrl and buildDevicesUrl throw without a token or a subject id;
\* fetchThemeLibrary builds its URL from the API key.
UrlThrows(op) == op # "fetchThemeLibrary" /\ (Falsy(idToken) \/ Falsy(localId))

RequestCallers == {p \in Callers : \A q \in Callers : p <= q}

\* The caller invokes a method: it runs to its await of ensureAuthenticated.
RequestStart(p, op) ==
  /\ apc[p] = "idle" /\ reqPc \in {"idle", "resolved", "rejected"}
  /\ EnsureAuthenticated(p)
  /\ reqOp' = op
  /\ reqPc' = "auth"
  /\ reqFetches' = 0
  /\ reqResponse' = NoResponse
  /\ reqError' = NoResponse
  /\ UNCHANGED <<now, streamVars, colorVars, platformVars, decoderVars, frameVars, otherVars,
                 streamResponse>>

\* await this.ensureAuthenticated() has ended: its error is the method's, or
\* the URL is built and the request issued.
RequestAuthDone(p) ==
  /\ reqPc = "auth" /\ apc[p] \in {"resolved", "rejected"}
  /\ ResetCall(p) /\ KeepSession
  /\ IF apc[p] = "rejected"
     THEN reqPc' = "rejected" /\ reqError' = AuthError /\ UNCHANGED reqFetches
     ELSE IF UrlThrows(reqOp)
     THEN reqPc' = "rejected" /\ reqError' = Unauthenticated /\ UNCHANGED reqFetches
     ELSE reqPc' = "fetching" /\ reqFetches' = reqFetches + 1 /\ UNCHANGED reqError
  /\ UNCHANGED <<now, streamVars, colorVars, platformVars, decoderVars, frameVars, otherVars,
                 reqOp, reqResponse, streamResponse>>

\* A method that issues its request once more when the answer is not ok.
RetryOnce(response) ==
  IF reqFetches = 1
  THEN reqPc' = "fetching" /\ reqFetches' = reqFetches + 1 /\ UNCHANGED reqError
  ELSE reqPc' = "rejected" /\ reqError' = response /\ UNCHANGED reqFetches

\* if (!response.ok): the body is read and an Error thrown whose message
\* holds the status and the body.
ThrowHttpError(response) ==
  reqPc' = "rejected" /\ reqError' = response /\ UNCHANGED reqFetches

\* The fetch of the method has ended.
RequestDone(p, response) ==
  /\ reqPc = "fetching"
  /\ reqResponse' = response
  /\ IF response = NetworkError
     THEN reqPc' = "rejected" /\ reqError' = NetworkError /\ UNCHANGED reqFetches
     ELSE IF ~Ok(response) THEN ThrowHttpError(response)
     ELSE reqPc' = "resolved" /\ UNCHANGED <<reqError, reqFetches>>
  /\ UNCHANGED <<now, authVars, streamVars, colorVars, platformVars, decoderVars, frameVars, otherVars,
                 reqOp, streamResponse>>

\* How consumeEventStream goes on from the answer to its fetch.
FetchResultOf(response) ==
  IF response = NetworkError THEN "network" ELSE IF Ok(response) THEN "ok" ELSE "http"

\* The fetch of consumeEventStream ends with the response.
StreamResponse(s, response) ==
  /\ FetchAnswered(s, FetchResultOf(response))
  /\ streamResponse' = response
  /\ UNCHANGED <<platformVars, decoderVars, frameVars, otherVars, reqOp, reqPc, reqFetches, reqResponse,
                 reqError>>

---------------------------------------------------------------------------
(***************************************************************************)
(* ThemeSwitchAccessory: the outlets of one theme group. HomeKit sets the  *)
(* On characteristic of an outlet through handleThemeSet: the value is     *)
(* stored once the handler has resolved, and is left as it was when the    *)
(* handler throws. A timer fires at its due instant.                       *)
(***************************************************************************)
MaxFlips == 3
MaxOutletTicks == 4
THEME_RESET_MS == 1000

\* The themes of the group: the command code and the parameters of the catalog.
OutletThemes ==
  << [code |-> "RAINBOW3", params |-> <<>>], [code |-> "GRADIENT1", params |-> <<5, 0>>] >>
ThemeIds == DOMAIN OutletThemes

\* `${value},` for a parameter of one digit
ParamText(value) == <<"0", "1", "2", "3", "4", "5", "6", "7", "8", "9">>[value + 1] \o ","

\* params.map(value => `${value},`).join('')
RECURSIVE Suffix(_)
Suffix(params) == IF params = <<>> THEN "" ELSE ParamText(Head(params)) \o Suffix(Tail(params))

\* buildThemeCommand(code, params)
BuildThemeCommand(code, params) == "THEME." \o code \o "." \o Suffix(params)

\* theme.controlData
ControlData(t) == BuildThemeCommand(OutletThemes[t].code, OutletThemes[t].params)

\* A reset timer of twice the delay.
ArmResetTimerLate(t) == resetTimers' = resetTimers \cup {<<t, now + 2 * THEME_RESET_MS>>}

\* setTimeout(() => { On = false; OutletInUse = false }, 1000)
ArmResetTimer(t) == resetTimers' = resetTimers \cup {<<t, now + THEME_RESET_MS>>}

\* handleThemeSet(theme, service, value), to its return or to its await of
\* sendControl. The platform has its API client.
HandleThemeSet(t, value) ==
  /\ Len(outletFlips) < MaxFlips
  /\ outletFlips' = Append(outletFlips, <<t, value>>)
  /\ IF value
     THEN /\ themeCommands' = Append(themeCommands, <<t, ControlData(t)>>)
          /\ themeInflight' = themeInflight \cup {Len(themeCommands) + 1}
          /\ UNCHANGED outletOn
     ELSE /\ outletOn' = [outletOn EXCEPT ![t] = FALSE]
          /\ UNCHANGED <<themeCommands, themeInflight>>
  /\ UNCHANGED <<now, authVars, streamVars, colorVars, platformVars, decoderVars, frameVars,
                 requestVars, discoverVars, readVars, outletSince, resetTimers>>

\* The sendControl of command c has ended: the reset timer is armed and the
\* value stored, or the error is logged and a HapStatusError thrown.
ThemeCommandDone(c, ok) ==
  LET t == themeCommands[c][1]
  IN /\ c \in themeInflight
     /\ themeInflight' = themeInflight \ {c}
     /\ IF ok
        THEN /\ ArmResetTimer(t)
             /\ outletOn' = [outletOn EXCEPT ![t] = TRUE]
             /\ outletSince' = [outletSince EXCEPT ![t] = now]
        ELSE UNCHANGED <<resetTimers, outletOn, outletSince>>
     /\ UNCHANGED <<now, authVars, streamVars, colorVars, platformVars, decoderVars, frameVars,
                    requestVars, discoverVars, readVars, outletFlips, themeCommands>>

\* A reset timer fires: On and OutletInUse are set to false.
ResetTimerFire(timer) ==
  /\ timer \in resetTimers /\ now = timer[2]
  /\ resetTimers' = resetTimers \ {timer}
  /\ outletOn' = [outletOn EXCEPT ![timer[1]] = FALSE]
  /\ UNCHANGED <<now, authVars, streamVars, colorVars, platformVars, decoderVars, frameVars,
                 requestVars, discoverVars, readVars, outletSince, outletFlips, themeCommands, themeInflight>>

\* updateThemes(definitions) with the same themes: every outlet is set to Off.
UpdateThemes ==
  /\ outletOn' = [t \in ThemeIds |-> FALSE]
  /\ UNCHANGED <<now, authVars, streamVars, colorVars, platformVars, decoderVars, frameVars,
                 requestVars, discoverVars, readVars, outletSince, outletFlips, themeCommands, themeInflight, resetTimers>>

OutletTickMs == THEME_RESET_MS \div 2

\* Time passes, up to the next instant a timer is due.
OutletTick ==
  /\ now < MaxOutletTicks * OutletTickMs
  /\ \A timer \in resetTimers : now + OutletTickMs <= timer[2]
  /\ now' = now + OutletTickMs
  /\ UNCHANGED <<authVars, streamVars, colorVars, mirrorVars>>

---------------------------------------------------------------------------
(***************************************************************************)
(* The read loop of consumeEventStream: the bytes of the response body     *)
(* arrive in chunks, textDecoder turns them into text, and the buffer is   *)
(* cut at each blank line.                                                 *)
(*                                                                         *)
(* A text is the sequence of its character codes. The bytes are the line   *)
(* feed, the carriage return, the letter d, and the two bytes of the       *)
(* UTF-8 encoding of one accented letter.                                  *)
(***************************************************************************)
MaxContent == 5
MaxRead == 2

LineFeed == 10
CarriageReturn == 13
LetterD == 100
LeadByte == 195
ContinuationByte == 169
AccentedLetter == 233
ReplacementCharacter == 65533

Bytes == {LineFeed, CarriageReturn, LetterD, LeadByte, ContinuationByte}

\* The chunks a read may deliver.
ReadValues == UNION {[1..n -> Bytes] : n \in 1..MaxRead}

\* textDecoder.decode(value, { stream: true }): a lead byte at the end of the
\* chunk is held back for the next call; a byte out of place becomes U+FFFD.
RECURSIVE Decode(_, _, _)
Decode(bytes, lead, text) ==
  IF bytes = <<>> THEN [text |-> text, lead |-> lead]
  ELSE LET b == Head(bytes)
       IN IF lead = 0
          THEN IF b = LeadByte THEN Decode(Tail(bytes), b, text)
               ELSE Decode(Tail(bytes), 0,
                           Append(text, IF b = ContinuationByte THEN ReplacementCharacter
                                        ELSE b))
          ELSE IF b = ContinuationByte
               THEN Decode(Tail(bytes), 0, Append(text, AccentedLetter))
               ELSE Decode(bytes, 0, Append(text, ReplacementCharacter))

\* A buffer that forgets what the earlier reads have left in it.
ChunkOnly(old, text) == text

\* buffer += text
AppendChunk(old, text) == old \o text

\* buffer.replace(/\r/g, '')
RemoveCR(text) == SelectSeq(text, LAMBDA c : c # CarriageReturn)

\* buffer.indexOf('\n\n'), counted from 1; 0 when there is none.
IndexOf(text) ==
  LET at == {i \in 1..(Len(text) - 1) : text[i] = LineFeed /\ text[i + 1] = LineFeed}
  IN IF at = {} THEN 0 ELSE CHOOSE i \in at : \A j \in at : i <= j

\* String.prototype.trim
IsSpace(c) == c \in {9, 10, 11, 12, 13, 32}

RECURSIVE TrimStart(_)
TrimStart(text) ==
  IF text # <<>> /\ IsSpace(Head(text)) THEN TrimStart(Tail(text)) ELSE text

RECURSIVE TrimEnd(_)
TrimEnd(text) ==
  IF text # <<>> /\ IsSpace(text[Len(text)])
  THEN TrimEnd(SubSeq(text, 1, Len(text) - 1)) ELSE text

Trim(text) == TrimEnd(TrimStart(text))

\* The inner while loop: each block before a blank line is trimmed and handed
\* to processSseEvent, and the buffer keeps what follows the blank line.
RECURSIVE FrameLoop(_, _)
FrameLoop(text, events) ==
  LET index == IndexOf(text)
  IN IF index = 0 THEN [buffer |-> text, events |-> events]
     ELSE FrameLoop(SubSeq(text, index + 2, Len(text)),
                    Append(events, Trim(SubSeq(text, 1, index - 1))))

\* reader.read() answers with a chunk: one turn of the outer while loop.
ReaderRead(value) ==
  /\ ~readDone /\ Len(received) + Len(value) <= MaxContent
  /\ LET decoded == Decode(value, decoderLead, <<>>)
         framed == FrameLoop(RemoveCR(AppendChunk(buffer, decoded.text)), <<>>)
     IN /\ received' = received \o value
        /\ decoderLead' = decoded.lead
        /\ buffer' = framed.buffer
        /\ rawEvents' = rawEvents \o framed.events
        /\ carried' = (carried \/ (buffer # <<>> /\ framed.events # <<>>))
  /\ UNCHANGED <<now, authVars, streamVars, colorVars, platformVars, decoderVars, frameVars,
                 requestVars, outletVars, discoverVars, readDone>>

\* reader.read() answers done: the loop breaks with what the buffer holds.
ReaderDone ==
  /\ ~readDone
  /\ readDone' = TRUE
  /\ UNCHANGED <<now, authVars, streamVars, colorVars, platformVars, decoderVars, frameVars,
                 requestVars, outletVars, discoverVars, received, decoderLead, buffer,
                 rawEvents, carried>>

---------------------------------------------------------------------------
Init ==
  /\ now = 0
  /\ idToken = Undefined
  /\ refreshToken = Undefined
  /\ localId = Undefined
  /\ tokenExpiry = Num(0)
  /\ apc = [p \in Procs |-> "idle"]
  /\ nLogin = [p \in Procs |-> 0]
  /\ nRefresh = [p \in Procs |-> 0]
  /\ authErr = [p \in Procs |-> "none"]
  /\ refreshFailed = [p \in Procs |-> FALSE]
  /\ obtainedAt = 0
  /\ obtainedLifetime = NaN
  /\ phase = [s \in Subs |-> "idle"]
  /\ ctrlAborted = [s \in Subs |-> FALSE]
  /\ streamAbortController = 0
  /\ eventSourceRestartTimer = 0
  /\ restartTimer = [s \in Subs |-> 0]
  /\ cancelled = [s \in Subs |-> FALSE]
  /\ cancelTurn = FALSE
  /\ lastEnd = [s \in Subs |-> "none"]
  /\ errorReported = [s \in Subs |-> FALSE]
  /\ skipRefresh = [s \in Subs |-> TRUE]
  /\ reconnecting = [s \in Subs |-> FALSE]
  /\ targetHue = 0
  /\ targetSaturation = 0
  /\ colorUpdatePromise = 0
  /\ colorUpdateTimeout = 0
  /\ submits = <<>>
  /\ settled = [k \in 1..MaxSubmits |-> "none"]
  /\ commands = <<>>
  /\ inflight = {}
  /\ colorTimers = {}
  /\ destroyed = FALSE
  /\ atDestroy = [submits |-> 0, commands |-> 0]
  /\ settledBy = [k \in 1..MaxSubmits |-> 0]
  /\ accessories = {}
  /\ accessoriesByDeviceId = {}
  /\ themeAccessories = EmptyMap
  /\ themeSwitchNames = <<>>
  /\ themeDefinitionsCache = [set |-> FALSE, defs |-> <<>>]
  /\ library = <<>>
  /\ warned = <<>>
  /\ refresh = [NoRefresh EXCEPT !.pc = "new"]
  /\ draining = FALSE
  /\ micro = <<>>
  /\ deleted = {}
  /\ themeOp = [turn |-> FALSE, device |-> 0, themes |-> <<>>]
  /\ lastSync = "none"
  /\ streamPath = <<>>
  /\ streamData = JsonNull
  /\ streamEntries = <<>>
  /\ updates = <<>>
  /\ parseFailed = FALSE
  /\ lampHandler = FALSE
  /\ cachedState = EmptyObject
  /\ pendingOn = "none"
  /\ frameType = "none"
  /\ frameData = "none"
  /\ frameOutcome = "none"
  /\ frameMalformed = FALSE
  /\ outletOn = [t \in ThemeIds |-> FALSE]
  /\ outletSince = [t \in ThemeIds |-> 0]
  /\ outletFlips = <<>>
  /\ themeCommands = <<>>
  /\ themeInflight = {}
  /\ resetTimers = {}
  /\ streamUnsubscribe = FALSE
  /\ discoverLog = "none"
  /\ catalogLog = "none"
  /\ received = <<>>
  /\ decoderLead = 0
  /\ buffer = <<>>
  /\ rawEvents = <<>>
  /\ readDone = FALSE
  /\ carried = FALSE
  /\ reqOp = "none"
  /\ reqPc = "idle"
  /\ reqFetches = 0
  /\ reqResponse = NoResponse
  /\ reqError = NoResponse
  /\ streamResponse = NoResponse

NextAuth ==
  \/ \E p \in Callers : CallEnsureAuthenticated(p)
  \/ \E p \in Callers : \E r \in AuthResponses(p) : LoginResponse(p, r)
  \/ \E p \in Callers : \E r \in AuthResponses(p) : RefreshResponse(p, r)
  \/ \E p \in Callers : AuthReturn(p)
  \/ \E t \in Instants : Tick(t)

SpecAuth == Init /\ [][NextAuth]_vars

NextStream ==
  \/ \E s \in Subs : Subscribe(s)
  \/ \E s \in Subs : \E r \in StreamAuthResponses : LoginResponse(s, r)
  \/ \E s \in Subs : ConnectAuthResolved(s)
  \/ \E s \in Subs : ConnectAuthRejected(s)
  \/ \E s \in Subs : \E ok \in BOOLEAN : BeforeConnectDone(s, ok)
  \/ \E s \in Subs : \E r \in FetchResults : FetchDone(s, r)
  \/ \E s \in Subs : \E r \in ReadResults : StreamEnd(s, r)
  \/ \E s \in Subs : StreamAborted(s)
  \/ \E s \in Subs : TimerFire(s)
  \/ \E s \in Subs : Cancel(s)

SpecStream == Init /\ [][NextStream]_vars

\* The first two subscriptions, when no cancel function is ever called; an
\* armed timer fires.
ReconnectSubs == {s \in Subs : Cardinality({u \in Subs : u < s}) < 2}

NextReconnect ==
  \/ \E s \in ReconnectSubs : Subscribe(s)
  \/ \E s \in ReconnectSubs : \E r \in StreamAuthResponses : LoginResponse(s, r)
  \/ \E s \in ReconnectSubs : ConnectAuthResolved(s)
  \/ \E s \in ReconnectSubs : ConnectAuthRejected(s)
  \/ \E s \in ReconnectSubs : \E ok \in BOOLEAN : BeforeConnectDone(s, ok)
  \/ \E s \in ReconnectSubs : \E r \in FetchResults : FetchDone(s, r)
  \/ \E s \in ReconnectSubs : \E r \in ReadResults : StreamEnd(s, r)
  \/ \E s \in ReconnectSubs : StreamAborted(s)
  \/ \E s \in ReconnectSubs : TimerFire(s)

SpecReconnect ==
  Init /\ [][NextReconnect]_vars /\ \A s \in ReconnectSubs : WF_vars(TimerFire(s))

NextColor ==
  \/ \E v \in Hues : HandleSetHue(v)
  \/ \E v \in Saturations : HandleSetSaturation(v)
  \/ \E k \in colorTimers : ColorTimerFire(k)
  \/ Destroy
  \/ \E c \in inflight : \E ok \in BOOLEAN : ColorCommandDone(c, ok)
  \/ ColorTick

SpecColor == Init /\ [][NextColor]_vars

\* Time passes while an armed timer is not due.
ColorTickLive ==
  /\ \E k \in colorTimers : now < DueAt(k)
  /\ now' = now + COLOR_DEBOUNCE_MS
  /\ UNCHANGED <<authVars, streamVars, colorVars, mirrorVars>>

\* The requests for one hue; every armed timer fires once it is due and every
\* sendControl ends.
NextColorLive ==
  \/ \E v \in {CHOOSE h \in Hues : TRUE} : HandleSetHue(v)
  \/ \E k \in colorTimers : ColorTimerFire(k)
  \/ Destroy
  \/ \E c \in inflight : \E ok \in BOOLEAN : ColorCommandDone(c, ok)
  \/ ColorTickLive

SpecColorLive ==
  /\ Init /\ [][NextColorLive]_vars
  /\ WF_vars(ColorTickLive)
  /\ \A k \in 1..MaxSubmits : WF_vars(ColorTimerFire(k))
  /\ \A c \in 1..MaxSubmits : WF_vars(\E ok \in BOOLEAN : ColorCommandDone(c, ok))

\* The colour requests of the callers, and the cloud states that reach the
\* handler meanwhile.
NextCloudColor ==
  \/ NextColor
  \/ \E digits \in CloudColors : CloudUpdate(digits)

SpecCloudColor == Init /\ [][NextCloudColor]_vars

NextPlatform ==
  \/ \E names \in ThemeConfigs : Constructor(names)
  \/ \E uuid \in Restorable : ConfigureAccessory(uuid)
  \/ DidFinishLaunching
  \/ \E sn \in Snapshots : RefreshDevicesFromCloud(sn)
  \/ \E r \in CatalogResults : CatalogDone(r)
  \/ \E d \in Devices : SyncDevice(d)
  \/ SyncFinish
  \/ DiscoverFailed
  \/ StartRealtimeStream
  \/ \E e \in StreamEvents : HandleEvent(e)
  \/ ResumeCallback

SpecPlatform == Init /\ [][NextPlatform]_vars

NextDecoder ==
  \/ \E entries \in RootEntries : RootEvent(entries)
  \/ \E path \in StreamPaths : \E data \in PathData : PathEvent(path, data)
  \/ \E value \in BOOLEAN : HandleSetOn(value)
  \/ \E ok \in BOOLEAN : SetOnDone(ok)

SpecDecoder == Init /\ [][NextDecoder]_vars

\* One subscription, and the framed events of its streams.
FrameSubs == {s \in Subs : \A u \in Subs : s <= u}

NextFrames ==
  \/ \E s \in FrameSubs : Subscribe(s)
  \/ \E s \in FrameSubs : \E r \in StreamAuthResponses : LoginResponse(s, r)
  \/ \E s \in FrameSubs : ConnectAuthResolved(s)
  \/ \E s \in FrameSubs : ConnectAuthRejected(s)
  \/ \E s \in FrameSubs : \E ok \in BOOLEAN : BeforeConnectDone(s, ok)
  \/ \E s \in FrameSubs : \E r \in FetchResults : FetchDone(s, r)
  \/ \E s \in FrameSubs : \E r \in ReadResults : StreamEnd(s, r)
  \/ \E s \in FrameSubs : StreamAborted(s)
  \/ \E s \in FrameSubs : TimerFire(s)
  \/ \E s \in FrameSubs : Cancel(s)
  \/ \E s \in FrameSubs : \E lines \in Frames : SseEvent(s, lines)

SpecFrames == Init /\ [][NextFrames]_vars

NextOutlet ==
  \/ \E t \in ThemeIds : \E value \in BOOLEAN : HandleThemeSet(t, value)
  \/ \E c \in themeInflight : \E ok \in BOOLEAN : ThemeCommandDone(c, ok)
  \/ \E timer \in resetTimers : ResetTimerFire(timer)
  \/ UpdateThemes
  \/ OutletTick

SpecOutlet == Init /\ [][NextOutlet]_vars

\* The reads of one response body.
NextRead ==
  \/ \E value \in ReadValues : ReaderRead(value)
  \/ ReaderDone

SpecRead == Init /\ [][NextRead]_vars

\* One caller of the direct requests and one subscription.
NextHttp ==
  \/ \E p \in RequestCallers : \E op \in DirectRequests : RequestStart(p, op)
  \/ \E p \in RequestCallers : \E r \in StreamAuthResponses : LoginResponse(p, r)
  \/ \E p \in RequestCallers : RequestAuthDone(p)
  \/ \E p \in RequestCallers : \E response \in Responses : RequestDone(p, response)
  \/ \E s \in FrameSubs : Subscribe(s)
  \/ \E s \in FrameSubs : \E r \in StreamAuthResponses : LoginResponse(s, r)
  \/ \E s \in FrameSubs : ConnectAuthResolved(s)
  \/ \E s \in FrameSubs : ConnectAuthRejected(s)
  \/ \E s \in FrameSubs : \E ok \in BOOLEAN : BeforeConnectDone(s, ok)
  \/ \E s \in FrameSubs : \E response \in Responses : StreamResponse(s, response)
  \/ \E s \in FrameSubs : \E r \in ReadResults : StreamEnd(s, r)
  \/ \E s \in FrameSubs : StreamAborted(s)
  \/ \E s \in FrameSubs : TimerFire(s)
  \/ \E s \in FrameSubs : Cancel(s)

SpecHttp == Init /\ [][NextHttp]_vars

Next == NextAuth \/ NextStream \/ NextColor \/ NextPlatform \/ NextDecoder \/ NextFrames
        \/ NextHttp \/ NextOutlet \/ NextCloudColor
        \/ NextColorLive \/ NextRead

Spec == Init /\ [][Next]_vars

---------------------------------------------------------------------------
(***************************************************************************)
(* Properties of the token lifecycle.                                      *)
(***************************************************************************)

InFlightAuth == {p \in Procs : apc[p] \in {"login", "refresh"}}

\* C1: single-flight authentication: while a login or refresh request is in
\* flight no second one is issued, so at most one is in flight at any time.
C1_SingleFlight == Cardinality(InFlightAuth) <= 1

SessionVars == <<idToken, refreshToken, localId, tokenExpiry>>

Enters(p) == apc[p] = "idle" /\ apc'[p] # "idle"

\* C7: a session obtained at time t with reported lifetime L expires at
\* t + (L - 120) s; ensureAuthenticated entered with that session up to 1 ms
\* before the expiry issues no request and keeps the session, and entered at the
\* expiry or later issues exactly one refresh or login.
C7_TokenMargin ==
  /\ []((~tokenExpiry.nan /\ ~obtainedLifetime.nan)
          => tokenExpiry.v = obtainedAt + (obtainedLifetime.v - 120) * 1000)
  /\ [][\A p \in Procs :
          (Enters(p) /\ idToken # Undefined /\ ~tokenExpiry.nan) =>
             IF now <= tokenExpiry.v - 1
             THEN /\ apc'[p] = "resolved"
                  /\ nLogin'[p] + nRefresh'[p] = 0
                  /\ SessionVars' = SessionVars
             ELSE /\ apc'[p] \in {"login", "refresh"}
                  /\ nLogin'[p] + nRefresh'[p] = 1]_vars

\* A caller was let through without a request one millisecond before the expiry
\* of a session that was obtained earlier.
C7_Witness ==
  \E p \in Procs :
    /\ apc[p] = "resolved" /\ nLogin[p] + nRefresh[p] = 0
    /\ idToken # Undefined /\ ~tokenExpiry.nan /\ ~obtainedLifetime.nan
    /\ obtainedAt < now /\ now = tokenExpiry.v - 1

\* C8: a failed refresh is followed by exactly one login attempt before
\* ensureAuthenticated returns or fails, the refresh error is never the error of
\* the call, and without a refresh token the call logs in with no refresh attempt.
C8_RefreshFallback ==
  /\ [](\A p \in Procs :
          /\ nRefresh[p] <= 1 /\ nLogin[p] <= 1
          /\ authErr[p] # "refresh"
          /\ apc[p] = "rejected" => (authErr[p] = "login" /\ nLogin[p] = 1)
          /\ refreshFailed[p] => (nLogin[p] = 1 /\ apc[p] \in {"login", "resolved", "rejected"}))
  /\ [][\A p \in Procs :
          (Enters(p) /\ refreshToken = Undefined /\ apc'[p] # "resolved") =>
             (apc'[p] = "login" /\ nRefresh'[p] = 0 /\ nLogin'[p] = 1)]_vars

\* A call whose refresh failed has ended after its one login.
C8_Witness ==
  \E p \in Procs :
    refreshFailed[p] /\ nRefresh[p] = 1 /\ nLogin[p] = 1 /\ apc[p] \in {"resolved", "rejected"}

SessionComplete ==
  idToken # Undefined /\ refreshToken # Undefined /\ localId # Undefined /\ ~tokenExpiry.nan

SessionEmpty == idToken = Undefined /\ refreshToken = Undefined /\ localId = Undefined

\* C9: an HTTP-ok login or refresh answer that lacks a field is an authentication
\* error: no session is stored from it and ensureAuthenticated does not return
\* successfully, so the stored session is never partial.
C9_MalformedResponseRejected ==
  /\ SessionComplete \/ SessionEmpty
  /\ \A p \in Procs : apc[p] = "resolved" => SessionComplete

---------------------------------------------------------------------------
(***************************************************************************)
(* Properties of the stream subscription.                                  *)
(***************************************************************************)

Running(s) == phase[s] \in {"auth", "before", "fetching", "streaming"}

\* Steps of the connect closure of subscription s.
Opens(s) == phase[s] # "fetching" /\ phase'[s] = "fetching"
Arms(s) == restartTimer[s] = 0 /\ restartTimer'[s] # 0
Fires(s) == restartTimer[s] # 0 /\ phase'[s] = "auth"
Ends(s) == Running(s) /\ phase'[s] \in {"waiting", "stopped"}

\* A call of a cancel function, and the first call of the one of s.
CancelCall == cancelTurn' # cancelTurn
FirstCancel(s) == ~cancelled[s] /\ cancelled'[s]

\* C2: closed is terminal: once the cancel function of a subscription has been
\* called, its connect closure opens no transport, and no reconnect timer of it
\* is armed or fires.
C2_ClosedIsTerminal ==
  [][\A s \in Subs : cancelled[s] => (~Opens(s) /\ ~Arms(s) /\ ~Fires(s))]_vars

\* C3: a connect of a subscription that was not cancelled, ending otherwise than
\* by an abort, arms one reconnect timer of 5000 ms; a cancel called while the
\* timer is armed clears it, so that it never fires.
C3_Reconnect ==
  /\ [][\A s \in Subs :
          (Ends(s) /\ lastEnd'[s] \in {"done", "error"} /\ ~cancelled[s])
             => restartTimer'[s] = 5000]_vars
  /\ [][\A s \in Subs : (FirstCancel(s) /\ restartTimer[s] # 0) => restartTimer'[s] = 0]_vars

OpenTransports == {s \in Subs : phase[s] \in {"fetching", "streaming"} /\ ~ctrlAborted[s]}

\* C4: at most one stream transport of the client is open at any time.
C4_OneTransport == Cardinality(OpenTransports) <= 1

\* A second subscription has opened its transport, and has aborted the one of the
\* first on the way, which was still fetching or streaming.
C4_Witness ==
  \E s, u \in Subs :
    /\ s # u
    /\ phase[s] \in {"fetching", "streaming"} /\ ctrlAborted[s]
    /\ u \in OpenTransports

\* C5: a connect that ends by an abort of its transport invokes no onError and
\* arms no reconnect timer.
C5_AbortIsSilent ==
  \A s \in Subs : lastEnd[s] = "aborted" => (~errorReported[s] /\ restartTimer[s] = 0)

\* C6: every call of a cancel function, the first or a later one, with or
\* without a transport ever opened, leaves no reconnect timer armed for a
\* subscription that was cancelled.
C6_IdempotentCancel ==
  [][\A s \in Subs : (CancelCall /\ cancelled'[s]) => restartTimer'[s] = 0]_vars

---------------------------------------------------------------------------
(***************************************************************************)
(* Properties of the colour debounce.                                      *)
(***************************************************************************)

\* The outcome the caller of the k-th submit has seen.
Outcome(k) == settled[submits[k].promise]

\* Two successive submits less than 150 ms apart.
CloseCalls ==
  {k \in 1..(Len(submits) - 1) : submits[k + 1].at - submits[k].at < 150}

CommandsAfter(k) == {c \in 1..Len(commands) : commands[c].after = k}

\* The command of the colour the hue and saturation stand for after submit k.
IntentOf(k) == BuildColorCommand(HsvToRgb(submits[k].hue, submits[k].saturation))

C10_OneCommand ==
  \A k \in CloseCalls :
    /\ CommandsAfter(k) = {}
    /\ Cardinality(CommandsAfter(k + 1)) <= 1
    /\ \A c \in CommandsAfter(k + 1) : commands[c].command = IntentOf(k + 1)

C10_SameOutcome ==
  \A k \in CloseCalls :
    (Outcome(k) # "pending" /\ Outcome(k + 1) # "pending") => Outcome(k) = Outcome(k + 1)

\* C10: two submits less than 150 ms apart cause one colour command, not issued
\* before the second and computed from the hue and saturation as they stand
\* after the second, and the promises of both callers settle with the same
\* outcome.
C10_Coalescing == C10_OneCommand /\ C10_SameOutcome

\* The command that carries the intent of submit k: the first one issued after it.
CommandsSince(k) == {c \in 1..Len(commands) : commands[c].after >= k}
CarriedBy(k, c) == c \in CommandsSince(k) /\ \A d \in CommandsSince(k) : c <= d

\* What settled the promise the k-th submit returned: 0 while it is pending, a
\* command, or -1 for destroy.
SettlerOf(k) == settledBy[submits[k].promise]

\* C11: a caller of submit is settled only by the end of the command that
\* carries the intent of its own batch, never by the end of a command of an
\* earlier batch that was in flight when it called, and the failure of the
\* command that carries its intent reaches it as a rejection.
C11_OwnBatchOutcome ==
  \A k \in 1..Len(submits) :
    /\ SettlerOf(k) > 0 => CarriedBy(k, SettlerOf(k))
    /\ \A c \in 1..Len(commands) :
         (CarriedBy(k, c) /\ commands[c].result = "failed" /\ SettlerOf(k) # -1)
            => Outcome(k) = "rejected"

\* The waiters of the batch of command c: the submits whose intent it carries.
BatchOf(c) == {k \in 1..Len(submits) : CarriedBy(k, c)}

OutcomeOf(result) == IF result = "ok" THEN "resolved" ELSE "rejected"

C12_WaitersSettled ==
  \A c \in 1..Len(commands) :
    commands[c].result # "pending" =>
      \A k \in BatchOf(c) : SettlerOf(k) # -1 => Outcome(k) = OutcomeOf(commands[c].result)

C12_NoRetry ==
  \A c, d \in 1..Len(commands) : commands[c].after = commands[d].after => c = d

C12_Discarded ==
  [][inflight' # inflight /\ Len(commands') = Len(commands)
       => (colorUpdatePromise' = 0 /\ colorTimers' = colorTimers)]_vars

\* C12: when the command of a batch ends, every waiter of that batch is settled
\* with its outcome (rejected on failure, resolved on success), the pending
\* promise is discarded, and no second command is issued for the batch.
C12_BatchSettles == [](C12_WaitersSettled /\ C12_NoRetry) /\ C12_Discarded

\* C13: a colour command is issued only once 150 ms have passed since the most
\* recent submit, and at most one debounce timer is armed at any time.
C13_QuiescenceTimer ==
  /\ Cardinality(colorTimers) <= 1
  /\ \A c \in 1..Len(commands) :
       /\ commands[c].after >= 1
       /\ commands[c].at - submits[commands[c].after].at >= 150

\* Two submits less than 150 ms apart, each arming a timer, were followed by
\* the one command, 150 ms after the second.
C13_Witness ==
  /\ 1 \in CloseCalls
  /\ \E c \in 1..Len(commands) : commands[c].after = 2 /\ commands[c].at = submits[2].at + 150

\* C14: destroy leaves no debounce timer armed, and when no submit follows it no
\* colour command is issued after it.
C14_DestroyClearsTimer ==
  /\ [](destroyed => (Len(submits) = atDestroy.submits => Len(commands) = atDestroy.commands))
  /\ [][(~destroyed /\ destroyed') => colorTimers' = {}]_vars

\* destroy was called in the window of the last submit, which is now over with
\* no command issued for it.
C14_Witness ==
  /\ destroyed /\ atDestroy.submits >= 1 /\ Len(submits) = atDestroy.submits
  /\ SettlerOf(Len(submits)) = -1
  /\ CommandsSince(Len(submits)) = {}
  /\ now >= DueAt(Len(submits))

---------------------------------------------------------------------------
(***************************************************************************)
(* Properties of the reconciliation of accessories.                        *)
(***************************************************************************)

\* A device has neither a lamp accessory, nor a handler, nor a theme group.
Untracked(d) ==
  /\ d \notin accessoriesByDeviceId /\ LampUuid(d) \notin accessories
  /\ ThemeUuid(d) \notin accessories /\ d \notin DOMAIN themeAccessories

\* syncDeviceSnapshot returns.
SyncReturns == refresh.pc = "sync" /\ refresh'.pc = "idle"

\* C15: when syncDeviceSnapshot returns, the tracked device mirrors are the
\* devices the snapshot holds with a state; a device that is not among them has
\* no accessory, no handler and no theme group, and a device among them has its
\* accessory and was not removed.
C15_SnapshotSupersession ==
  [][SyncReturns =>
       /\ accessoriesByDeviceId' = refresh.present
       /\ \A d \in Devices \ refresh.present : Untracked(d)'
       /\ \A d \in refresh.present :
            /\ LampUuid(d) \in accessories'
            /\ d \in accessoriesByDeviceId => d \in accessoriesByDeviceId']_vars

\* A snapshot pass has removed a device that had a handler, and has left another.
C15_Witness ==
  /\ lastSync = "removed" /\ refresh.pc = "idle"
  /\ accessoriesByDeviceId # {}
  /\ \E d \in Devices : Untracked(d)

\* A configured name matches a catalog definition when their lower-case forms
\* are the same.
Matches(themeName, def) == ToLowerCase(themeName) = ToLowerCase(def.name)
HasMatch(themeName) == \E i \in 1..Len(library) : Matches(themeName, library[i])
HasNoMatch(themeName) == ~HasMatch(themeName)

C17_ThemeGroup ==
  [][themeOp'.turn # themeOp.turn =>
       LET d == themeOp'.device
       IN IF themeOp'.themes # <<>>
          THEN /\ ThemeUuid(d) \in accessories'
               /\ d \in DOMAIN themeAccessories' /\ themeAccessories'[d] = themeOp'.themes
          ELSE /\ ThemeUuid(d) \notin accessories'
               /\ d \notin DOMAIN themeAccessories']_vars

\* A device has a theme group that carries the resolved themes, after a call for
\* a second device.
C17_Witness ==
  /\ themeOp.device = 2 /\ themeOp.themes # <<>>
  /\ \A d \in Devices : d \in DOMAIN themeAccessories /\ themeAccessories[d] = themeOp.themes

\* C18: once the callbacks of the events handled so far have run to completion,
\* a device whose last event was a deletion has neither a mirror nor a theme
\* group.
C18_DeletionCascades == micro = <<>> => \A d \in deleted : Untracked(d)


\* The key of an entry of a root payload can be percent-decoded.
Decodable(entry) == DecodeURIComponent(entry[1]).ok

\* The event is a put or patch of an object at the root path.
RootFanOut == IsRootPath(streamPath) /\ IsObject(streamData)

\* C19: for an event whose path is "/" and whose data is an object, the calls of
\* onUpdate are, in order, one for every top-level key that can be
\* percent-decoded, with the decoded key as identifier and the value of the key
\* as update, null included.
C19_RootFanOut ==
  RootFanOut =>
    LET keyed == SelectSeq(streamEntries, Decodable)
    IN /\ Len(updates) = Len(keyed)
       /\ \A i \in 1..Len(keyed) :
            /\ updates[i].deviceId = DecodeURIComponent(keyed[i][1]).value
            /\ updates[i].update = keyed[i][2]

\* data under the keys k1..kn.
Wrapped(keys, data) == {<<keys \o e[1], e[2]>> : e \in data}

\* The segments of a path: the identifier and the keys.
Segments(path) == Split(Trimmed(path))

\* The payload has a path with an identifier that can be decoded and at least
\* one key, and data that is not null.
NestedPatch(path, data) ==
  /\ ~IsRootPath(path) /\ Len(Segments(path)) >= 2
  /\ Segments(path)[1] # <<>> /\ DecodeURIComponent(Segments(path)[1]).ok
  /\ data # JsonNull

\* The step is a control operation's: a handleSetOn is started, or its
\* sendControl ends. Every other step of the handlers is a stream event's.
ControlStep ==
  \/ pendingOn = "none" /\ pendingOn' # "none"
  \/ pendingOn # "none" /\ pendingOn' = "none" /\ lampHandler'
StreamStep == ~ControlStep

\* C20: an event with path /<id>/<k1>/.../<kn> and data that is not null makes
\* one call of onUpdate, for <id>, with the data under k1..kn; when <id> has a
\* lamp handler, its cached state has the data under k2..kn at k1 afterwards, and
\* the same keys with the same values everywhere else.
C20_NestedPatch ==
  [][(StreamStep /\ NestedPatch(streamPath', streamData')) =>
       LET segments == Segments(streamPath')
           deviceId == DecodeURIComponent(segments[1]).value
           k1 == segments[2]
       IN /\ updates' = <<OnUpdate(deviceId, Wrapped(Tail(segments), streamData'))>>
          /\ (deviceId = TrackedId /\ lampHandler) =>
               /\ lampHandler'
               /\ Get(cachedState', k1) = Wrapped(Tail(Tail(segments)), streamData')
               /\ TopKeys(cachedState') \ {k1} = TopKeys(cachedState) \ {k1}
               /\ \A k \in TopKeys(cachedState) \ {k1} :
                    Get(cachedState', k) = Get(cachedState, k)]_vars

\* The event /A/c/u with "LEDON" has been applied to a handler whose cached
\* state held "o" and "u" before: it holds them still, and {"u": "LEDON"} at "c".
C20_Witness ==
  /\ streamPath = <<47, 65, 47, 99, 47, 117>> /\ streamData = Leaf("LEDON")
  /\ lampHandler
  /\ TopKeys(cachedState) = {<<99>>, <<111>>, <<117>>}
  /\ Get(cachedState, <<99>>) = Obj1(<<117>>, Leaf("LEDON"))
  /\ Get(cachedState, <<111>>) = Leaf("true")

\* The last event is a removal signal for the followed device itself: null for
\* its key in an object at the root, or null at the path of its identifier.
ExplicitRemoval ==
  \/ /\ RootFanOut
     /\ \E i \in 1..Len(streamEntries) :
          /\ Decodable(streamEntries[i])
          /\ DecodeURIComponent(streamEntries[i][1]).value = TrackedId
          /\ streamEntries[i][2] = JsonNull
  \/ /\ ~IsRootPath(streamPath) /\ Len(Segments(streamPath)) = 1
     /\ DecodeURIComponent(Segments(streamPath)[1]).ok
     /\ DecodeURIComponent(Segments(streamPath)[1]).value = TrackedId
     /\ streamData = JsonNull

\* C21: the lamp handler of a device is removed by a stream event only when the
\* event is a removal signal for the device itself; null at a deeper path
\* /<id>/<field> leaves the handler and its cached state in place.
C21_RemovalOnlyForDevice ==
  [][(lampHandler /\ ~lampHandler') => ExplicitRemoval']_vars

\* C22: a value that is not null for a device in an object at the root replaces
\* the cached state of its handler: afterwards the cached state is that value.
C22_RootValueReplaces ==
  [][(StreamStep /\ RootFanOut' /\ lampHandler) =>
       \A i \in 1..Len(updates') :
         (updates'[i].deviceId = TrackedId /\ updates'[i].update # JsonNull) =>
           cachedState' = updates'[i].update]_vars

\* C29: every theme group carries at least one resolved theme, those restored
\* from the accessory cache included.
C29_ThemeGroupsCarryThemes ==
  \A d \in DOMAIN themeAccessories : themeAccessories[d] # <<>>

\* C30: after an event at the root path whose data is null (the whole device
\* map was removed) no device has a handler.
C30_RootNullClearsDevices ==
  (IsRootPath(streamPath) /\ streamData = JsonNull) => ~lampHandler

\* The connect() of subscription s opens the stream in this step.
Opening(s) == phase[s] = "before" /\ phase'[s] = "fetching"

\* The onBeforeConnect that returns in this step has awaited
\* refreshDevicesFromCloud: its skipRefresh flag was clear.
Refreshes(s) == ~skipRefresh[s]

\* C25: an attempt goes from ensureAuthenticated to onBeforeConnect to the
\* opening of the stream, and an attempt that is not the first of its
\* subscription opens the stream only after its onBeforeConnect has completed a
\* snapshot refresh.
C25_RefreshBeforeReconnect ==
  [][\A s \in Subs :
       /\ phase'[s] = "before" /\ phase[s] # "before" => phase[s] = "auth"
       /\ phase'[s] = "fetching" /\ phase[s] # "fetching" => phase[s] = "before"
       /\ (Opening(s) /\ reconnecting[s]) => Refreshes(s)]_vars

\* C28: a control operation leaves the cached state of its handler as it was:
\* when the sendControl of a handleSetOn ends, the cached state is unchanged.
C28_ControlLeavesCache ==
  [][(pendingOn # "none" /\ pendingOn' = "none" /\ lampHandler') =>
       cachedState' = cachedState]_vars

\* The connect() of subscription s has ended and none has started since.
Ended(s) == lastEnd[s] # "none"

\* C26: when no cancel function is called, every end of a connect() arms the
\* reconnect timer, with the delay of 5000 ms whatever the number of attempts,
\* and is followed by another connect().
C26_UnconditionalReconnect ==
  /\ [](\A s \in ReconnectSubs : /\ phase[s] # "stopped"
                                 /\ Ended(s) => restartTimer[s] = RECONNECT_DELAY_MS)
  /\ \A s \in ReconnectSubs : Ended(s) ~> (phase[s] = "auth")

\* A connect() that the reconnect timer started has failed too, and the
\* subscription waits for the same delay again.
C26_Witness ==
  \E s \in Subs : /\ reconnecting[s] /\ lastEnd[s] = "error"
                  /\ phase[s] = "waiting" /\ restartTimer[s] = RECONNECT_DELAY_MS

\* A framed event has been handed to processSseEvent in this step.
FrameStep == frameVars' # frameVars

\* C23: a framed event whose type is neither put nor patch, the default type
\* included, or whose data payload is empty, is dropped: no call of onUpdate
\* or onError, and the connect() of its stream goes on as it was.
C23_UnrecognizedDropped ==
  [][(FrameStep /\ (frameType' \notin {"put", "patch"} \/ frameData' = "empty"))
       => /\ frameOutcome' = "ignored"
          /\ UNCHANGED <<decoderVars, streamVars, frameMalformed>>]_vars

\* A document that came without an event: line has been dropped on the first
\* stream of a subscription, which is still open.
C23_Witness ==
  /\ frameType = "message" /\ frameData = "document" /\ frameOutcome = "ignored"
  /\ \E s \in FrameSubs : phase[s] = "streaming" /\ ~ctrlAborted[s] /\ ~reconnecting[s]

\* C24: a put or patch event whose payload is no valid JSON is dropped with a
\* warning, the connect() of its stream going on as it was, and a later put or
\* patch event whose document is handled without an error has its calls of
\* onUpdate made.
C24_MalformedDropped ==
  [][/\ (FrameStep /\ frameType' \in {"put", "patch"} /\ frameData' = "malformed")
        => /\ frameOutcome' = "warned"
           /\ UNCHANGED <<decoderVars, streamVars>>
     /\ (FrameStep /\ frameMalformed /\ frameType' \in {"put", "patch"}
           /\ frameData' = "document" /\ ~parseFailed')
        => /\ frameOutcome' = "dispatched"
           /\ updates' = HandleStreamPayload(streamPath', streamData', streamEntries').calls
           /\ UNCHANGED streamVars]_vars

\* On the first stream of a subscription a malformed event was dropped, and a
\* later event has been dispatched to onUpdate; the stream is still open.
C24_Witness ==
  /\ frameMalformed /\ frameOutcome = "dispatched" /\ updates # <<>>
  /\ \E s \in FrameSubs : phase[s] = "streaming" /\ ~ctrlAborted[s] /\ ~reconnecting[s]

\* The fetch of consumeEventStream of subscription s is answered in this step.
StreamAnswered(s) == phase[s] = "fetching" /\ ~ctrlAborted[s] /\ phase'[s] # "fetching"

\* C27: a direct request whose answer has a status that is not a success is
\* rejected with an error that carries the status and the body, after one
\* single fetch; such an answer to the fetch of the stream is reported through
\* onError and the reconnect timer is armed.
C27_HttpFailure ==
  /\ [](/\ reqFetches <= 1
        /\ HttpFailure(reqResponse)
             => reqPc = "rejected" /\ reqError = reqResponse /\ reqFetches = 1)
  /\ [][\A s \in FrameSubs :
          (StreamAnswered(s) /\ HttpFailure(streamResponse'))
            => /\ errorReported'[s] /\ lastEnd'[s] = "error"
               /\ phase'[s] = "waiting" /\ restartTimer'[s] = RECONNECT_DELAY_MS]_vars

\* A patchDevice has been rejected with the status and the body of its answer,
\* and a connect() whose stream was refused waits for the reconnect timer.
C27_Witness ==
  /\ reqOp = "patchDevice" /\ reqPc = "rejected" /\ reqError = <<401, "denied">>
  /\ \E s \in FrameSubs : /\ HttpFailure(streamResponse) /\ errorReported[s]
                           /\ phase[s] = "waiting" /\ restartTimer[s] = RECONNECT_DELAY_MS

\* HomeKit sets the On characteristic of an outlet in this step.
Flipped == Len(outletFlips') = Len(outletFlips) + 1
LastFlip == outletFlips[Len(outletFlips)]

\* C31: setting an outlet to On hands the THEME command of its theme to
\* sendControl, setting it to Off hands over nothing; the reset timer that is
\* armed is due 1000 ms later, and no outlet is On for more than 1000 ms.
C31_ThemeOutlet ==
  /\ [][/\ Flipped =>
            IF LastFlip'[2]
            THEN /\ Len(themeCommands') = Len(themeCommands) + 1
                 /\ themeCommands'[Len(themeCommands')][1] = LastFlip'[1]
                 /\ \E t \in ThemeIds :
                      /\ t = LastFlip'[1]
                      /\ themeCommands'[Len(themeCommands')][2] \in
                           {"THEME." \o OutletThemes[t].code \o "." \o s : s \in {"", "5,0,"}}
            ELSE themeCommands' = themeCommands
        /\ \A t \in ThemeIds :
             (~outletOn[t] /\ outletOn'[t]) => <<t, now + THEME_RESET_MS>> \in resetTimers'
        /\ \A timer \in resetTimers' \ resetTimers : timer[2] = now + THEME_RESET_MS]_vars
  /\ [](\A t \in ThemeIds : outletOn[t] => now <= outletSince[t] + THEME_RESET_MS)

\* The outlet of the second theme was set to On, its command with the two
\* parameters was sent, and one second after the command ended the outlet is
\* Off again.
C31_Witness ==
  /\ outletFlips = << <<2, TRUE>> >>
  /\ themeCommands = << <<2, "THEME.GRADIENT1.5,0,">> >> /\ themeInflight = {}
  /\ ~outletOn[2] /\ resetTimers = {} /\ now = outletSince[2] + THEME_RESET_MS

\* The successful answers a login or a refresh of process p can receive.
OkResponses(q) == {r \in AuthResponses(q) : r.kind = "ok"}

\* C32: in every state the stored session is empty, as at construction, or its
\* token, refresh token, subject id and expiry are those of one successful
\* login or refresh answer, received at obtainedAt.
C32_AtomicSession ==
  \/ SessionEmpty /\ tokenExpiry = Num(0)
  \/ \E q \in Callers : \E r \in OkResponses(q) :
       /\ idToken = r.payload.idToken
       /\ refreshToken = r.payload.refreshToken
       /\ localId = r.payload.localId
       /\ obtainedLifetime = ParseInt(r.payload.expiresIn)
       /\ tokenExpiry = TokenExpiryOf(obtainedAt, r.payload.expiresIn)

\* Two callers have each issued a login, both logins have succeeded, and the
\* session is the one of the second caller's answer.
C32_Witness ==
  /\ apc[1] = "resolved" /\ nLogin[1] = 1
  /\ apc[2] = "resolved" /\ nLogin[2] = 1
  /\ idToken = 2 /\ refreshToken = 2 /\ localId = 2

\* The login or the refresh of process p fails in this step.
AttemptFails(q) ==
  \/ apc[q] = "login" /\ apc'[q] = "rejected"
  \/ apc[q] = "refresh" /\ apc'[q] \in {"login", "rejected"}

\* C35: a login or a refresh that fails leaves the token, the refresh token,
\* the subject id and the expiry of the stored session as they were.
C35_FailureKeepsSession ==
  [][\A q \in Callers : AttemptFails(q) => UNCHANGED SessionVars]_vars

\* With a session stored, a refresh has failed and the login that followed it
\* has failed too; the session is still complete.
C35_Witness ==
  \E q \in Callers : authErr[q] = "login" /\ refreshFailed[q] /\ SessionComplete

\* pushColorUpdate hands a command to sendControl in this step.
Pushes == Len(commands') = Len(commands) + 1

\* C33: the colour command issued when the debounce timer fires is computed
\* from the hue and the saturation of the last submit, whatever cloud states
\* have been merged since.
C33_CloudKeepsIntent ==
  [][Pushes => commands'[Len(commands')].command = IntentOf(Len(submits))]_vars

\* C34: when every armed timer fires and every sendControl ends, the promise
\* returned by each call of scheduleColorUpdate is settled in the end.
C34_EveryPromiseSettles ==
  \A k \in 1..MaxSubmits :
    (Len(submits) >= k) ~> (Len(submits) >= k /\ Outcome(k) \in {"resolved", "rejected"})

\* Submits before and after destroy() and a command that failed: every promise
\* is settled, no timer is armed and no command is in flight.
C34_Witness ==
  /\ destroyed /\ atDestroy.submits >= 1 /\ Len(submits) > atDestroy.submits
  /\ \A k \in 1..Len(submits) : Outcome(k) \in {"resolved", "rejected"}
  /\ \E c \in 1..Len(commands) : commands[c].result = "failed"
  /\ colorTimers = {} /\ inflight = {}

\* C36: the stream is subscribed to only by a step taken after a snapshot pass
\* of discoverDevices has been fetched and reconciled without an error, and
\* once discoverDevices has logged its error the stream is never subscribed
\* to and no snapshot pass starts again.
C36_StreamAfterSnapshot ==
  [][/\ (streamUnsubscribe' /\ ~streamUnsubscribe)
         => (lastSync # "none" /\ refresh.pc = "idle" /\ discoverLog = "none")
     /\ discoverLog = "error"
         => (~streamUnsubscribe' /\ discoverLog' = "error" /\ refresh' = refresh
             /\ refresh.pc = "failed")]_vars

\* The reconciliation failed after it had registered a lamp: the error is
\* logged and there is no stream.
C36_Witness ==
  /\ discoverLog = "error" /\ ~streamUnsubscribe /\ refresh.pc = "failed"
  /\ accessoriesByDeviceId # {}

\* C37: a failed load of the theme catalog gives the pass an empty resolved
\* set and caches nothing; when that pass returns, no device of its snapshot
\* has a theme accessory; the pass that starts after a failed load queries
\* the catalog again; and after a successful load the cache stays as it is
\* and the catalog is not queried any more.
C37_CatalogFailure ==
  [][/\ (refresh.pc = "catalog" /\ catalogLog' = "error")
         => (refresh'.themes = <<>> /\ ~themeDefinitionsCache'.set)
     /\ (refresh.pc = "sync" /\ refresh'.pc = "idle" /\ catalogLog = "error")
         => \A d \in refresh.present \cup refresh.nulls : ThemeUuid(d) \notin accessories'
     /\ (refresh.pc = "idle" /\ refresh'.pc \in {"catalog", "sync"} /\ catalogLog = "error")
         => refresh'.pc = "catalog"
     /\ catalogLog = "loaded"
         => (/\ refresh'.pc # "catalog" /\ themeDefinitionsCache.set
             /\ themeDefinitionsCache' = themeDefinitionsCache
             /\ catalogLog' = "loaded")]_vars

\* A pass whose catalog load has failed is about to remove the theme accessory
\* that a lamp of its snapshot still has.
C37_Witness ==
  /\ refresh.pc = "sync" /\ catalogLog = "error" /\ ~themeDefinitionsCache.set
  /\ refresh.themes = <<>>
  /\ \E d \in refresh.present \cap refresh.todo : ThemeUuid(d) \in accessories

\* The blank lines of a text, counted from its start without overlap.
RECURSIVE Separators(_)
Separators(text) ==
  IF Len(text) < 2 THEN 0
  ELSE IF text[1] = LineFeed /\ text[2] = LineFeed
       THEN 1 + Separators(SubSeq(text, 3, Len(text)))
       ELSE Separators(Tail(text))

\* C38: whatever the chunks of the reads, the blocks handed to processSseEvent
\* are those the same bytes give when they arrive in one chunk, one for each
\* blank line of the text without its carriage returns, and the buffer holds
\* the rest, which has no blank line and is dispatched by no read, the last
\* one included.
C38_ChunkingIndependent ==
  LET text == RemoveCR(Decode(received, 0, <<>>).text)
      whole == FrameLoop(text, <<>>)
  IN /\ rawEvents = whole.events
     /\ Len(rawEvents) = Separators(text)
     /\ buffer = whole.buffer
     /\ IndexOf(buffer) = 0

\* The stream ended after a blank line that two reads delivered with a
\* carriage return in between, and after text of a next event.
C38_Witness ==
  /\ readDone /\ carried
  /\ \E i \in 1..Len(rawEvents) : rawEvents[i] # <<>>
  /\ Trim(buffer) # <<>>
  /\ CarriageReturn \in {received[i] : i \in 1..Len(received)}

=============================================================================
